---- MODULE Spec2Model ----
(***************************************************************************)
(* Waveform acquisition and scaling of the LecroyWR606Zi oscilloscope      *)
(* driver (pymeasure/instruments/lecroy/LecroyWR606Zi.py).                 *)
(*                                                                         *)
(* The driver talks to the instrument through blocking writes and queries. *)
(* The model keeps the instrument's waveform setup (WFSU SP/NP/FP), the    *)
(* driver's position inside _acquire_data with its local variables, and a  *)
(* log of every command of the running call.                               *)
(*                                                                         *)
(* A block-transfer reply is a byte sequence of up to a million bytes.  It *)
(* is represented by its length, its first _header_size bytes, its last    *)
(* byte and a descriptor of the bytes in between; the code only ever reads *)
(* a reply through these four (len(), [0:h], [-f:], [h:-f]).               *)
(***************************************************************************)
EXTENDS Integers, Sequences, FiniteSets, TLC

\* ------------------------------------------------------------------ bounds

\* largest sparsing factor a caller passes (0 is the non-positive case)
MaxSparsing == 3

\* the largest record the instrument holds is MaxChunks full chunks plus one
MaxChunks == 3

\* ------------------------------------------------------- program constants

\* chunk_bytes = 1000000
chunk_bytes == 1000000

\* self._footer_size = 1  (termchar \n)
footer_size == 1

\* self._header_size: the 7 characters compared with "DAT1,#9" followed by
\* the 9 characters read as the count by _npoints_sanity_checks
header_size == 16

\* chunk_points = chunk_bytes - self._header_size - self._footer_size
chunk_points == chunk_bytes - header_size - footer_size

Channels == {"C1", "C2", "C3", "C4"}

\* sources the waveform_source attribute is given; "LINE" resolves to none
Sources == Channels \cup {"MATH", "LINE"}

\* ---------------------------------------------------------------- helpers

Min(a, b) == IF a < b THEN a ELSE b

\* Python's -(a // -b) for b > 0: the ceiling of a / b, also for a <= 0
CeilDiv(a, b) == -((-a) \div b)

RECURSIVE Pow10(_)
Pow10(k) == IF k = 0 THEN 1 ELSE 10 * Pow10(k - 1)

DigitChars == <<"0", "1", "2", "3", "4", "5", "6", "7", "8", "9">>

DigitSet == {DigitChars[k] : k \in 1..10}

DigitValue(c) == (CHOOSE k \in 1..10 : DigitChars[k] = c) - 1

\* the instrument's zero padded decimal count field of w characters
ZeroPad(n, w) == [k \in 1..w |-> DigitChars[((n \div Pow10(w - k)) % 10) + 1]]

RECURSIVE DecimalValue(_)
DecimalValue(s) ==
    IF s = <<>> THEN 0
    ELSE 10 * DecimalValue(SubSeq(s, 1, Len(s) - 1)) + DigitValue(s[Len(s)])

AllDigits(s) == \A k \in 1..Len(s) : s[k] \in DigitSet

RECURSIVE StripLeft(_)
StripLeft(s) == IF s # <<>> /\ s[1] = " " THEN StripLeft(Tail(s)) ELSE s

RECURSIVE StripRight(_)
StripRight(s) ==
    IF s # <<>> /\ s[Len(s)] = " " THEN StripRight(SubSeq(s, 1, Len(s) - 1)) ELSE s

\* Python's int(text): surrounding blanks are dropped, one sign is allowed,
\* single underscores may separate digits.  ok = FALSE stands for ValueError.
PyInt(text) ==
    LET t == StripRight(StripLeft(text))
        signed == t # <<>> /\ t[1] \in {"+", "-"}
        body == IF signed THEN Tail(t) ELSE t
        wellformed ==
            /\ body # <<>>
            /\ \A k \in 1..Len(body) : body[k] \in DigitSet \cup {"_"}
            /\ body[1] # "_" /\ body[Len(body)] # "_"
            /\ \A k \in 1..(Len(body) - 1) : ~(body[k] = "_" /\ body[k + 1] = "_")
        digits == SelectSeq(body, LAMBDA c : c # "_")
        mag == DecimalValue(digits)
    IN  IF ~wellformed THEN [ok |-> FALSE, val |-> 0]
        ELSE [ok |-> TRUE, val |-> IF signed /\ t[1] = "-" THEN -mag ELSE mag]


\* ------------------------------------------------------- block transfers

\* "DAT1,#9", the text message_header[0:7] is compared with
HeaderPrefix == <<"D", "A", "T", "1", ",", "#", "9">>

Newline == "\n"

\* a byte outside ASCII: bytes(...).decode("ascii") raises on it
NonAscii == "<80>"

\* samples first, first + step, ... (n of them) of the selected trace
Payload(first, step, n) == [first |-> first, step |-> step, n |-> n]

\* a reply of `length` bytes: its first header_size bytes, its last byte and
\* the bytes in between
Message(length, header, payload, footer) ==
    [len |-> length, header |-> header, payload |-> payload, footer |-> footer]

NoMessage == Message(0, <<>>, Payload(0, 0, 0), "")

\* the frame the instrument sends for n points: header, n sample bytes, "\n"
Frame(header, first, step, n, footer) ==
    Message(Len(header) + n + footer_size, header, Payload(first, step, n), footer)

GoodHeader(n) == HeaderPrefix \o ZeroPad(n, header_size - Len(HeaderPrefix))

\* bytes(...).decode("ascii")
DecodesAscii(chars) == \A k \in 1..Len(chars) : chars[k] # NonAscii

\* _digitize: the reply is kept only when its length is the requested one
DigitizeError(message, num_bytes) ==
    IF message.len # num_bytes THEN "BufferError" ELSE "none"

\* _header_footer_sanity_checks with the footer check left out
HeaderFooterNoFooterCheck(message) ==
    IF ~DecodesAscii(message.header) THEN "UnicodeDecodeError"
    ELSE IF SubSeq(message.header, 1, 7) # HeaderPrefix THEN "ValueError"
    ELSE "none"

\* _header_footer_sanity_checks(message): the error it raises, or "none"
HeaderFooterSanityChecks(message) ==
    IF ~DecodesAscii(message.header) THEN "UnicodeDecodeError"
    ELSE IF SubSeq(message.header, 1, 7) # HeaderPrefix THEN "ValueError"
    ELSE IF ~DecodesAscii(<<message.footer>>) THEN "UnicodeDecodeError"
    ELSE IF message.footer # Newline THEN "ValueError"
    ELSE "none"

\* the count read from the last two characters of the header only
CountFieldTwo(header) ==
    IF Len(header) <= 2 THEN header ELSE SubSeq(header, Len(header) - 1, Len(header))

\* message_header[-9:]
CountField(header) ==
    IF Len(header) <= 9 THEN header ELSE SubSeq(header, Len(header) - 8, Len(header))

\* _npoints_sanity_checks(message): the error it raises, or "none"
NpointsSanityChecks(message) ==
    LET transmitted_points == PyInt(CountField(message.header))
        received_points == message.len - header_size - footer_size
    IN  IF ~DecodesAscii(message.header) THEN "UnicodeDecodeError"
        ELSE IF ~transmitted_points.ok THEN "ValueError"
        ELSE IF transmitted_points.val # received_points THEN "ValueError"
        ELSE "none"

\* ------------------------------------------------------------ I/O events

\* one command sent to the instrument: a write, a query or a block transfer
Event(op, key, val) == [op |-> op, key |-> key, val |-> val]

\* ----------------------------------------------- acquisition_sample_size

\* \w of the regular expression, over the characters the replies use
WordChars == DigitSet \cup {"C", "F", "M", "A", "T", "H", "_"}

OperatorChars == {"+", "-", "/", "*"}

\* the characters of a source name
SourceChars(source) ==
    CASE source = "C1" -> <<"C", "1">>
      [] source = "C2" -> <<"C", "2">>
      [] source = "C3" -> <<"C", "3">>
      [] source = "C4" -> <<"C", "4">>
      [] source = "MATH" -> <<"M", "A", "T", "H">>
      [] OTHER -> <<"F", "1">>

\* the source name spelled by chars; "F1" stands for every other text
SourceNamed(chars) ==
    IF \E s \in Channels \cup {"MATH"} : SourceChars(s) = chars
    THEN CHOOSE s \in Channels \cup {"MATH"} : SourceChars(s) = chars
    ELSE "F1"

\* sanitize_source(source): the canonical source name, or ValueError
SanitizeSource(source) ==
    IF source \in Channels \cup {"MATH"}
    THEN [ok |-> TRUE, val |-> source]
    ELSE [ok |-> FALSE, val |-> source]

\* the length of the longest run of \w characters of text from position at
RECURSIVE WordRun(_, _)
WordRun(text, at) ==
    IF at <= Len(text) /\ text[at] \in WordChars THEN 1 + WordRun(text, at + 1) ELSE 0

\* re.match(r"'(\w+)[+\-/*](\w+)'", text): the two groups, or no match
MatchDefine(text) ==
    LET a == WordRun(text, 2)
        b == WordRun(text, a + 3)
        matched ==
            /\ Len(text) >= 1 /\ text[1] = "'"
            /\ a >= 1
            /\ a + 2 <= Len(text) /\ text[a + 2] \in OperatorChars
            /\ b >= 1
            /\ a + b + 3 <= Len(text) /\ text[a + b + 3] = "'"
    IN  IF matched
        THEN [ok |-> TRUE, g1 |-> SubSeq(text, 2, a + 1), g2 |-> SubSeq(text, a + 3, a + b + 2)]
        ELSE [ok |-> FALSE, g1 |-> <<>>, g2 |-> <<>>]

\* the reply to DEF? for "left op right"
Equation(left, op, right) == <<"'">> \o left \o <<op>> \o right \o <<"'">>

\* the outcome of a call: the error raised ("none": returned), the value
\* returned and the queries sent
Outcome(err, val, queries) == [err |-> err, val |-> val, queries |-> queries]

\* acquisition_sample_size of a channel: one query of its sample count
ChannelSampleSize(source, counts) ==
    Outcome("none", counts[source], <<Event("query", source, counts[source])>>)

\* acquisition_sample_size called with a text (an operand of the equation)
OperandSampleSize(chars, counts) ==
    LET source == SanitizeSource(SourceNamed(chars))
    IN  IF ~source.ok THEN Outcome("ValueError", 0, <<>>)
        ELSE IF source.val \in Channels THEN ChannelSampleSize(source.val, counts)
        ELSE Outcome("RecursionError", 0, <<>>)

\* the MATH branch taking the larger of the two operands' counts
MathSampleSizeMax(equation, counts) ==
    LET match == MatchDefine(equation)
        first == OperandSampleSize(match.g1, counts)
        second == OperandSampleSize(match.g2, counts)
        define == <<Event("query", "DEF", 0)>>
    IN  IF ~match.ok THEN Outcome("AttributeError", 0, define)
        ELSE IF first.err # "none" THEN Outcome(first.err, 0, define \o first.queries)
        ELSE IF second.err # "none"
             THEN Outcome(second.err, 0, define \o first.queries \o second.queries)
        ELSE Outcome("none", IF first.val > second.val THEN first.val ELSE second.val,
                     define \o first.queries \o second.queries)

\* the MATH branch: min of the sample sizes of the equation's two operands
MathSampleSize(equation, counts) ==
    LET match == MatchDefine(equation)
        first == OperandSampleSize(match.g1, counts)
        second == OperandSampleSize(match.g2, counts)
        define == <<Event("query", "DEF", 0)>>
    IN  IF ~match.ok THEN Outcome("AttributeError", 0, define)
        ELSE IF first.err # "none" THEN Outcome(first.err, 0, define \o first.queries)
        ELSE IF second.err # "none"
             THEN Outcome(second.err, 0, define \o first.queries \o second.queries)
        ELSE Outcome("none", Min(first.val, second.val),
                     define \o first.queries \o second.queries)

\* acquisition_sample_size(source) for the text source
AcquisitionSampleSize(source, equation, counts) ==
    LET name == SanitizeSource(source)
    IN  IF ~name.ok THEN Outcome("ValueError", 0, <<>>)
        ELSE IF name.val \in Channels THEN ChannelSampleSize(name.val, counts)
        ELSE MathSampleSize(equation, counts)

\* ------------------------------------------------- _acquire_data, pure parts

\* expected_points computed without the sparsing
ExpectedPointsNoSparsing(points, sample_points, sp) ==
    IF points > 0 THEN Min(points, sample_points) ELSE sample_points

\* expected_points (int(sample_points / sparsing) for sparsing >= 1)
ExpectedPoints(points, sample_points, sp) ==
    IF points > 0 THEN Min(points, sample_points \div sp) ELSE sample_points \div sp

\* iterations rounded down
IterationsFloor(expected) == expected \div chunk_points

\* iterations = -(expected_points // -chunk_points)
Iterations(expected) == CeilDiv(expected, chunk_points)

\* requested_points of chunk k when every chunk asks for a full chunk
ChunkRequestedPointsFull(expected, k) == chunk_points

\* requested_points of chunk k: chunk_points, or what remains when it is less
ChunkRequestedPoints(expected, k) ==
    LET read_points == k * chunk_points
        remaining_points == expected - read_points
    IN  IF remaining_points > chunk_points THEN chunk_points ELSE remaining_points

\* first_point of chunk k without the sparsing
ChunkFirstPointUnscaled(k, sp) == k * chunk_points

\* first_point of chunk k: read_points * sparsing
ChunkFirstPoint(k, sp) == (k * chunk_points) * sp

\* requested_bytes = requested_points + header size + footer size
RequestedBytes(points) == points + header_size + footer_size

\* np.concatenate(data): the number of samples of the joined chunks
RECURSIVE TotalPoints(_)
TotalPoints(chunks) ==
    IF chunks = <<>> THEN 0 ELSE chunks[1].n + TotalPoints(Tail(chunks))

\* ---------------------------------------------------------- _process_data

\* Volts, seconds and rates are exact fractions n / d with d > 0
RECURSIVE Gcd(_, _)
Gcd(a, b) == IF b = 0 THEN a ELSE Gcd(b, a % b)

Abs(a) == IF a < 0 THEN -a ELSE a

Rat(n, d) ==
    LET g == Gcd(Abs(n), Abs(d))
        sign == IF d < 0 THEN -1 ELSE 1
    IN  [n |-> sign * (n \div g), d |-> sign * (d \div g)]

RatOfInt(k) == [n |-> k, d |-> 1]

Lcm(a, b) == (a \div Gcd(a, b)) * b

RatAdd(x, y) ==
    LET d == Lcm(x.d, y.d) IN Rat(x.n * (d \div x.d) + y.n * (d \div y.d), d)

RatNeg(x) == [n |-> -x.n, d |-> x.d]

RatSub(x, y) == RatAdd(x, RatNeg(y))

RatMul(x, y) == Rat(x.n * y.n, x.d * y.d)

RatDiv(x, y) == Rat(x.n * y.d, x.d * y.n)

\* self._grid_number: the 14 grid lines of the docstring's "7 = 14 / 2"
grid_number == 14

\* the byte of the math trace read as signed
UnsignedByteAsSigned(y) == IF y < 128 THEN y ELSE y - 256

\* int.from_bytes([y], byteorder='big', signed=False)
UnsignedByte(y) == y

\* the byte of a channel read as unsigned
SignedByteAsUnsigned(y) == y

\* int.from_bytes([y], byteorder='big', signed=True)
SignedByte(y) == IF y < 128 THEN y ELSE y - 256

\* _scale_data(y)
ScaleData(y, preamble) ==
    IF preamble.source = "MATH"
    THEN RatSub(RatDiv(RatMul(RatOfInt(UnsignedByte(y)), preamble.ydiv), RatOfInt(25)),
                RatDiv(RatMul(preamble.ydiv,
                              RatAdd(preamble.yoffset, RatOfInt(255))), RatOfInt(50)))
    ELSE RatSub(RatDiv(RatMul(RatOfInt(SignedByte(y)), preamble.ydiv), RatOfInt(25)),
                preamble.yoffset)

\* _scale_time(x) with the sparsing left out
ScaleTimeNoSparsing(x, preamble) ==
    RatAdd(RatDiv(RatMul(RatNeg(preamble.xdiv), RatOfInt(grid_number)), RatOfInt(2)),
           RatDiv(RatOfInt(x), preamble.sampling_rate))

\* _scale_time(x)
ScaleTime(x, preamble) ==
    RatAdd(RatDiv(RatMul(RatNeg(preamble.xdiv), RatOfInt(grid_number)), RatOfInt(2)),
           RatDiv(RatOfInt(x * preamble.sparsing), preamble.sampling_rate))

\* np.arange(n): 0, 1, ..., n - 1
Arange(n) == [k \in 1..n |-> k - 1]

\* _process_data with the times scaled from the samples, not the indices
ProcessDataTimeOfSamples(raw, preamble) ==
    LET data_points == [k \in 1..Len(raw) |-> ScaleData(raw[k], preamble)]
        time_points == [k \in 1..Len(raw) |-> ScaleTime(raw[k], preamble)]
    IN  IF raw = <<>>
        THEN [err |-> "ValueError", data_points |-> <<>>, time_points |-> <<>>]
        ELSE [err |-> "none", data_points |-> data_points, time_points |-> time_points]

\* _process_data(ydata, preamble): np.vectorize applies _scale_data to every
\* sample and _scale_time to every index, in order; it raises ValueError on
\* an input of size 0
ProcessData(raw, preamble) ==
    LET data_points == [k \in 1..Len(raw) |-> ScaleData(raw[k], preamble)]
        indices == Arange(Len(data_points))
        time_points == [k \in 1..Len(indices) |-> ScaleTime(indices[k], preamble)]
    IN  IF raw = <<>>
        THEN [err |-> "ValueError", data_points |-> <<>>, time_points |-> <<>>]
        ELSE [err |-> "none", data_points |-> data_points, time_points |-> time_points]

\* ------------------------------------------------------ channel controls

\* Python values: a str (its characters), a bool, an int or a float; the
\* number of a bool is 1 or 0
StrVal(chars) == [kind |-> "str", text |-> chars, num |-> RatOfInt(0)]

BoolVal(b) == [kind |-> "bool", text |-> <<>>, num |-> RatOfInt(IF b THEN 1 ELSE 0)]

IntVal(n) == [kind |-> "int", text |-> <<>>, num |-> RatOfInt(n)]

FloatVal(q) == [kind |-> "float", text |-> <<>>, num |-> q]

ListVal == [kind |-> "list", text |-> <<>>, num |-> RatOfInt(0)]

NoValue == [kind |-> "none", text |-> <<>>, num |-> RatOfInt(0)]

\* a == b of Python: texts by their characters, numbers and bools by their
\* value (True == 1, -1 == -1.0), a text never equals a number
PyEq(a, b) ==
    IF a.kind = "str" \/ b.kind = "str"
    THEN a.kind = b.kind /\ a.text = b.text
    ELSE a.kind \in {"bool", "int", "float"} /\ b.kind \in {"bool", "int", "float"}
         /\ a.num = b.num

\* one entry of a values dict
Entry(key, val) == [key |-> key, val |-> val]

\* values of bwlimit, in the order of the dict
bwlimit_values ==
    << Entry(StrVal(<<"2", "0", "M", "H", "z">>), StrVal(<<"2", "0", "M", "H", "z">>)),
       Entry(StrVal(<<"2", "0", "0", "M", "H", "z">>),
             StrVal(<<"2", "0", "0", "M", "H", "z">>)),
       Entry(StrVal(<<"1", "G", "H", "z">>), StrVal(<<"F", "u", "l", "l">>)) >>

\* values of coupling with two keys written as the same token
coupling_values_clash ==
    << Entry(StrVal(<<"a", "c">>), StrVal(<<"A", "C", "1", "M">>)),
       Entry(StrVal(<<"d", "c">>), StrVal(<<"D", "C", "1", "M">>)),
       Entry(StrVal(<<"d", "c", "5", "0">>), StrVal(<<"D", "C", "1", "M">>)),
       Entry(StrVal(<<"g", "r", "o", "u", "n", "d">>), StrVal(<<"G", "n", "d">>)) >>

\* values of coupling
coupling_values ==
    << Entry(StrVal(<<"a", "c">>), StrVal(<<"A", "C", "1", "M">>)),
       Entry(StrVal(<<"d", "c">>), StrVal(<<"D", "C", "1", "M">>)),
       Entry(StrVal(<<"d", "c", "5", "0">>), StrVal(<<"D", "C", "5", "0">>)),
       Entry(StrVal(<<"g", "r", "o", "u", "n", "d">>), StrVal(<<"G", "n", "d">>)) >>

\* values of invert
invert_values == << Entry(BoolVal(TRUE), IntVal(-1)), Entry(BoolVal(FALSE), IntVal(0)) >>

\* a control of a channel: the VBS property its get command returns and
\* its set command assigns, whether the set command quotes the value, and
\* the values dict
bwlimit ==
    [name |-> "bwlimit",
     get |-> "app.Acquisition.C{ch}.BandwidthLimit",
     set |-> "app.Acquisition.C{ch}.BandwidthLimit",
     quoted |-> TRUE, values |-> bwlimit_values]

coupling ==
    [name |-> "coupling",
     get |-> "app.Acquisition.C{ch}.Coupling",
     set |-> "app.Acquisition.C{ch}.Coupling",
     quoted |-> TRUE, values |-> coupling_values]

invert ==
    [name |-> "invert",
     get |-> "app.acquisition.C{ch}.Invert",
     set |-> "app.acquisition.C{ch}.Invert",
     quoted |-> FALSE, values |-> invert_values]

ChannelControls == {bwlimit, coupling, invert}

ChannelIds == 1..4

\* the outcome of a validator or of a property access
Checked(err, val) == [err |-> err, val |-> val]

\* the positions of the entries of a dict whose key equals value
KeysEqual(value, values) == {k \in 1..Len(values) : PyEq(values[k].key, value)}

\* strict_discrete_set(value, values) on a dict: value must be among the keys
StrictDiscreteSet(value, values) ==
    IF KeysEqual(value, values) # {} THEN Checked("none", value)
    ELSE Checked("ValueError", value)

\* values[value] of a dict
MapValue(value, values) ==
    values[CHOOSE k \in KeysEqual(value, values) : TRUE].val

\* the key of the first entry whose value equals value, or KeyError
ReverseMap(value, values) ==
    LET hits == {k \in 1..Len(values) : PyEq(values[k].val, value)}
    IN  IF hits = {} THEN Checked("KeyError", value)
        ELSE Checked("none", values[CHOOSE k \in hits : \A h \in hits : k <= h].key)

\* the decimal digits of a natural number
RECURSIVE NatChars(_)
NatChars(n) ==
    IF n < 10 THEN <<DigitChars[n + 1]>>
    ELSE Append(NatChars(n \div 10), DigitChars[(n % 10) + 1])

\* "%d" % n
IntChars(n) == IF n < 0 THEN <<"-">> \o NatChars(-n) ELSE NatChars(n)

\* "%s" % value
FormatS(value) ==
    CASE value.kind = "str" -> value.text
      [] value.kind = "int" -> IntChars(value.num.n)
      [] value.kind = "bool" ->
            IF value.num.n = 1 THEN <<"T", "r", "u", "e">>
            ELSE <<"F", "a", "l", "s", "e">>
      [] OTHER -> <<"?">>

\* a command: its header, the property or parameter it names, its argument
\* text, the channel put for {ch} (0: none) and the channel of a "C%d:"
\* prefix (0: none)
Command(head, object, arg, channel, prefix) ==
    [head |-> head, object |-> object, arg |-> arg, channel |-> channel,
     prefix |-> prefix]

NoCommand == Command("", "", <<>>, 0, 0)

Quote == "\""

\* the set command of a control with the value formatted into it
SetCommand(control, value) ==
    Command("VBS", control.set,
            IF control.quoted THEN <<Quote>> \o FormatS(value) \o <<Quote>>
            ELSE FormatS(value),
            0, 0)

\* the get command of a control
GetCommand(control) == Command("VBS?", control.get, <<>>, 0, 0)

\* LecroyWR606ZiChannel.insert_id(command): a command that begins with "VBS"
\* or "PACU " gets the channel for {ch}, any other the prefix "C%d:"
InsertId(command, id) ==
    IF command.head \in {"VBS", "VBS?", "PACU"}
    THEN [command EXCEPT !.channel = id]
    ELSE [command EXCEPT !.prefix = id]

\* the text of a VBS literal: the characters between the quotes of a quoted
\* one, the characters of any other
Unquote(text) ==
    IF Len(text) >= 2 /\ text[1] = Quote /\ text[Len(text)] = Quote
    THEN SubSeq(text, 2, Len(text) - 1)
    ELSE text

\* the properties the instrument keeps: those the controls read and write
StoreKeys ==
    {<<object, ch>> : object \in {c.get : c \in ChannelControls}
                                 \cup {c.set : c \in ChannelControls},
                      ch \in ChannelIds}

\* the instrument after a reset: full bandwidth, DC 1 MOhm, not inverted
StoreDefault ==
    [key \in StoreKeys |->
        CASE key[1] = bwlimit.get -> <<"F", "u", "l", "l">>
          [] key[1] = coupling.get -> <<"D", "C", "1", "M">>
          [] OTHER -> <<"0">>]

\* the instrument takes a VBS assignment: it keeps the text assigned
InstrumentWrite(st, command) ==
    IF command.head = "VBS" /\ command.prefix = 0
       /\ <<command.object, command.channel>> \in StoreKeys
    THEN [st EXCEPT ![<<command.object, command.channel>>] = Unquote(command.arg)]
    ELSE st

\* the instrument answers a VBS query: the text it keeps and the terminator
InstrumentAsk(st, command) ==
    IF command.head = "VBS?" /\ command.prefix = 0
       /\ <<command.object, command.channel>> \in StoreKeys
    THEN st[<<command.object, command.channel>>] \o <<Newline>>
    ELSE <<Newline>>

Whitespace == {" ", "\n", "\r", "\t"}

\* str.strip()
RECURSIVE PyStrip(_)
PyStrip(text) ==
    IF text # <<>> /\ text[1] \in Whitespace THEN PyStrip(Tail(text))
    ELSE IF text # <<>> /\ text[Len(text)] \in Whitespace
    THEN PyStrip(SubSeq(text, 1, Len(text) - 1))
    ELSE text

\* str.split(","): the pieces between the commas
RECURSIVE Split(_)
Split(text) ==
    LET commas == {k \in 1..Len(text) : text[k] = ","}
    IN  IF commas = {} THEN <<text>>
        ELSE LET at == CHOOSE k \in commas : \A c \in commas : k <= c
             IN  <<SubSeq(text, 1, at - 1)>> \o Split(SubSeq(text, at + 1, Len(text)))

\* float(text) for the decimal forms: blanks around, a sign, digits with at
\* most one point.  ok = FALSE stands for ValueError; the forms with an
\* exponent, "inf" and "nan" do not occur among the texts of the model
PyFloat(text) ==
    LET t == PyStrip(text)
        signed == t # <<>> /\ t[1] \in {"+", "-"}
        body == IF signed THEN Tail(t) ELSE t
        points == {k \in 1..Len(body) : body[k] = "."}
        digits == SelectSeq(body, LAMBDA c : c # ".")
        wellformed ==
            /\ digits # <<>>
            /\ AllDigits(digits)
            /\ Cardinality(points) <= 1
        places == IF points = {} THEN 0
                  ELSE Len(body) - (CHOOSE k \in points : TRUE)
        mag == Rat(DecimalValue(digits), Pow10(places))
    IN  IF ~wellformed THEN [ok |-> FALSE, val |-> RatOfInt(0)]
        ELSE [ok |-> TRUE, val |-> IF signed /\ t[1] = "-" THEN RatNeg(mag) ELSE mag]

\* one piece of a reply cast by float, or kept as text when float raises
Cast(piece) ==
    IF PyFloat(piece).ok THEN FloatVal(PyFloat(piece).val) ELSE StrVal(PyStrip(piece))

\* Instrument.values(command): the reply stripped, split and cast
Values(reply) ==
    LET pieces == Split(PyStrip(reply))
    IN  [k \in 1..Len(pieces) |-> Cast(pieces[k])]

\* the setter of a control with map_values: the validator, the values dict
\* and the set command; nothing is written when the validator raises
ControlSet(control, id, value) ==
    LET checked == StrictDiscreteSet(value, control.values)
    IN  IF checked.err # "none"
        THEN [err |-> checked.err, command |-> NoCommand]
        ELSE [err |-> "none",
              command |-> InsertId(SetCommand(control,
                                              MapValue(checked.val, control.values)),
                                   id)]

\* the getter of a control with map_values on the reply of the instrument
ControlGet(control, reply) ==
    LET vals == Values(reply)
    IN  IF Len(vals) = 1 THEN ReverseMap(vals[1], control.values)
        ELSE Checked("none", ListVal)

\* --------------------------------------------------------- display_parameter

\* measurable_parameters_full: key and value of every entry
measurable_parameters_full ==
    { <<"amplitude", "Amplitude">>, <<"base", "Base">>, <<"maximum", "Maximum">>,
      <<"mean", "Mean">>, <<"minimum", "Minimum">>, <<"pkpk", "PeakToPeak">>,
      <<"rms", "RootMeanSquare">>, <<"top", "Top">>, <<"area", "Area">>,
      <<"dutycylce", "DutyCycle">>, <<"delay", "DeltaDelay">>, <<"falltime", "Fall">>,
      <<"risetime", "Rise">>, <<"frequency", "Frequency">>, <<"period", "Period">>,
      <<"pwidth", "Width">>, <<"nwidth", "WidthNegative">>, <<"skew", "Skew">>,
      <<"phase", "Phase">>, <<"holdtime", "HoldTime">>, <<"setuptime", "Setup">>,
      <<"povershoot", "OvershootPositive">>, <<"novershoot", "OvershootNegative">>,
      <<"cycle", "Cycles">>, <<"delay50", "Delay">>, <<"DutyAtLevel", "DutyAtLevel">>,
      <<"DeltaPeriodAtLevel", "DeltaPeriodAtLevel">>,
      <<"DeltaTimeAtLevel", "DeltaTimeAtLevel">>,
      <<"DeltaTriggerTime", "DeltaTriggerTime">>,
      <<"DeltaWidthAtLevel", "DeltaWidthAtLevel">>, <<"DOV", "DOV">>,
      <<"Duration", "Duration">>, <<"DutyCycleDistortion", "DutyCycleDistortion">>,
      <<"EdgeAtLevel", "EdgeAtLevel">>, <<"EMClvlPulse", "EMClvlPulse">>,
      <<"EMCt2Val", "EMCt2Val">>, <<"EOvshN", "EOvshN">>, <<"EOvshP", "EOvshP">>,
      <<"ExcelParam", "ExcelParam">>, <<"ExtinctionRatio", "ExtinctionRatio">>,
      <<"EyeAmplitude", "EyeAmplitude">>, <<"EyeAvgPower", "EyeAvgPower">>,
      <<"EyeBER", "EyeBER">>, <<"EyeCrossing", "EyeCrossing">>,
      <<"EyeHeight", "EyeHeight">>, <<"EyeOneLevel", "EyeOneLevel">>,
      <<"EyeQFactor", "EyeQFactor">>, <<"EyeWidth", "EyeWidth">>,
      <<"EyeZeroLevel", "EyeZeroLevel">>, <<"Fall8020", "Fall8020">>,
      <<"FallAtLevel", "FallAtLevel">>, <<"FastMultiWPort", "FastMultiWPort">>,
      <<"FirstPoint", "FirstPoint">>, <<"FrequencyAtLevel", "FrequencyAtLevel">>,
      <<"FullWidthAtHalfMaximum", "FullWidthAtHalfMaximum">>,
      <<"FullWidthAtXX", "FullWidthAtXX">>, <<"GapWidth", "GapWidth">>,
      <<"GBM1FGDroop", "GBM1FGDroop">>, <<"GBM1HJDroop", "GBM1HJDroop">>,
      <<"HalfPeriod", "HalfPeriod">>, <<"HistogramAmplitude", "HistogramAmplitude">>,
      <<"HistogramBase", "HistogramBase">>, <<"HistogramMaximum", "HistogramMaximum">>,
      <<"HistogramMean", "HistogramMean">>, <<"HistogramMedian", "HistogramMedian">>,
      <<"HistogramMid", "HistogramMid">>, <<"HistogramMinimum", "HistogramMinimum">>,
      <<"HistogramRms", "HistogramRms">>, <<"HistogramSdev", "HistogramSdev">>,
      <<"HistogramTop", "HistogramTop">>, <<"HParamScript", "HParamScript">>,
      <<"I2StoValue", "I2StoValue">>, <<"LastPoint", "LastPoint">>,
      <<"LevelAtX", "LevelAtX">>, <<"LocalBase", "LocalBase">>,
      <<"LocalBaselineSeparation", "LocalBaselineSeparation">>,
      <<"LocalMaximum", "LocalMaximum">>, <<"LocalMinimum", "LocalMinimum">>,
      <<"LecroyWR606ZiLocalNumber", "LocalNumber">>,
      <<"LocalPeakToPeak", "LocalPeakToPeak">>,
      <<"LocalTimeAtMaximum", "LocalTimeAtMaximum">>,
      <<"LocalTimeAtMinimum", "LocalTimeAtMinimum">>,
      <<"LocalTimeBetweenEvent", "LocalTimeBetweenEvent">>,
      <<"LocalTimeBetweenPeaks", "LocalTimeBetweenPeaks">>,
      <<"LocalTimeBetweenTroug", "LocalTimeBetweenTroug">>,
      <<"LocalTimeOverThreshold", "LocalTimeOverThreshold">>,
      <<"LocalTimePeakToTrough", "LocalTimePeakToTrough">>,
      <<"LocalTimeTroughToPeak", "LocalTimeTroughToPeak">>,
      <<"LocalTimeUnderThreshol", "LocalTimeUnderThreshol">>,
      <<"MathcadParam", "MathcadParam">>, <<"MATLABParameter", "MATLABParameter">>,
      <<"MaximumPopulation", "MaximumPopulation">>, <<"Median", "Median">>,
      <<"Mode", "Mode">>, <<"NarrowBandPhase", "NarrowBandPhase">>,
      <<"NarrowBandPower", "NarrowBandPower">>, <<"NCycleJitter", "NCycleJitter">>,
      <<"NonLinearTransitionShift", "NonLinearTransitionShift">>, <<"npoints", "npoints">>,
      <<"Null", "Null">>, <<"NumberOfModes", "NumberOfModes">>,
      <<"Overwrite", "Overwrite">>, <<"ParamScript", "ParamScript">>,
      <<"PEAKMAG", "PEAKMAG">>, <<"Peaks", "Peaks">>, <<"Percentile", "Percentile">>,
      <<"PeriodAtLevel", "PeriodAtLevel">>, <<"PopulationAtX", "PopulationAtX">>,
      <<"PowerFactor", "PowerFactor">>, <<"Protocol2Analog", "Protocol2Analog">>,
      <<"Protocol2Protocol", "Protocol2Protocol">>, <<"Protocol2Value", "Protocol2Value">>,
      <<"ProtocolBitrate", "ProtocolBitrate">>, <<"ProtocolLoad", "ProtocolLoad">>,
      <<"ProtocolNumMessages", "ProtocolNumMessages">>, <<"PW50", "PW50">>,
      <<"PW50Negative", "PW50Negative">>, <<"PW50Positive", "PW50Positive">>,
      <<"Range", "Range">>, <<"RealPower", "RealPower">>, <<"Resolution", "Resolution">>,
      <<"Rise2080", "Rise2080">>, <<"RiseAtLevel", "RiseAtLevel">>, <<"SAS", "SAS">>,
      <<"Slew", "Slew">>, <<"StandardDeviation", "StandardDeviation">>, <<"TAA", "TAA">>,
      <<"TAANegative", "TAANegative">>, <<"TAAPositive", "TAAPositive">>, <<"TIE", "TIE">>,
      <<"TimeAtCAN", "TimeAtCAN">>, <<"TimeAtLevel", "TimeAtLevel">>,
      <<"TimeAtProtocol", "TimeAtProtocol">>, <<"TotalPopulation", "TotalPopulation">>,
      <<"timetUpS", "tUpS">>, <<"WidthAtLevel", "WidthAtLevel">>,
      <<"XAtMaximum", "XAtMaximum">>, <<"XAtMinimum", "XAtMinimum">>,
      <<"XAtPeak", "XAtPeak">> }

\* LecroyWR606ZiChannel._measurable_parameters
measurable_parameters ==
    { "PKPK", "MAX", "MIN", "AMPL", "TOP", "BASE", "CMEAN", "MEAN", "RMS", "CRMS",
      "OVSN", "FPRE", "OVSP", "RPRE", "PER", "FREQ", "PWID", "NWID", "RISE", "FALL",
      "WID", "DUTY", "NDUTY", "ALL" }

\* the slots P1 to P8: values[0] of display_parameter
SlotRange == <<1, 8>>

\* strict_range(value, values)
StrictRange(value, range) == range[1] <= value /\ value <= range[2]

\* the outcome of _measurement_add_validator: an error, or slot and name
Validated(err, slot, name) == [err |-> err, slot |-> slot, name |-> name]

\* _measurement_add_validator(value, values): the tuple has two members, the
\* slot is in the range, the name is among the names, and the name is then
\* looked up in measurable_parameters_full, which raises KeyError on a name
\* that is not one of its keys
MeasurementAddValidator(value, range, names) ==
    IF Len(value) # 2 THEN Validated("ValueError", 0, "")
    ELSE IF ~StrictRange(value[1], range) THEN Validated("ValueError", 0, "")
    ELSE IF value[2] \notin names THEN Validated("ValueError", 0, "")
    ELSE IF ~(\E entry \in measurable_parameters_full : entry[1] = value[2])
    THEN Validated("KeyError", 0, "")
    ELSE Validated("none", value[1],
                   (CHOOSE entry \in measurable_parameters_full :
                        entry[1] = value[2])[2])

\* "PACU %d,%s,C{ch}" % (slot, name), the channel put for {ch} by insert_id
DisplayParameterCommand(id, slot, name) ==
    InsertId(Command("PACU", name, IntChars(slot), 0, 0), id)

\* the setter of display_parameter
DisplayParameterSet(id, value) ==
    LET checked == MeasurementAddValidator(value, SlotRange, measurable_parameters)
    IN  IF checked.err # "none"
        THEN [err |-> checked.err, command |-> NoCommand]
        ELSE [err |-> "none",
              command |-> DisplayParameterCommand(id, checked.slot, checked.name)]

\* ------------------------------------------------------------- the inputs

\* sample counts the instrument reports for a channel
SampleCounts == {0, 1, 2 * chunk_points, MaxChunks * chunk_points + 1}

\* the instrument's records: the channels of one converter pair share a depth
SampleConfigs ==
    {c \in [Channels -> SampleCounts] : c["C3"] = c["C1"] /\ c["C4"] = c["C2"]}

\* requested_points arguments: all points, one point, a chunk and a half
RequestedPoints == {0, 1, chunk_points + (chunk_points \div 2)}

Sparsings == 0..MaxSparsing

\* replies to DEF?: two channels, one channel twice, and no equation
Equations ==
    { Equation(SourceChars("C1"), "*", SourceChars("C2")),
      Equation(SourceChars("C4"), "-", SourceChars("C4")),
      SourceChars("C1") }

\* ---------------------------------------------------------------- state

VARIABLES
    wfsu,             \* instrument: waveform setup SP (sparsing), NP, FP
    samples,          \* instrument: sample count of every channel
    math_eqn,         \* instrument: the math trace's equation text
    waveform_source,  \* driver: the selected source
    pc,               \* position of the driver inside _acquire_data
    sparsing,         \* _acquire_data: argument
    arg_points,       \* _acquire_data: requested_points as passed
    requested_points, \* _acquire_data: local, reassigned by every chunk
    expected_points,  \* _acquire_data: local
    iterations,       \* _acquire_data: local
    i,                \* _acquire_data: loop index
    data,             \* _acquire_data: accepted chunk payloads
    values,           \* _acquire_data: reply of the current transfer
    log,              \* commands sent during the current call, in order
    transfers,        \* block transfers of the current call with their replies
    result,           \* what the call returned or raised
    found,            \* the first point the running call found on the instrument
    store,            \* instrument: the text held by every VBS property
    written,          \* the last command a property setter has written
    write_count,      \* the number of commands the setters have written
    assigned,         \* the value last assigned to every channel control
    got,              \* what the last property access returned or raised
    ydata,            \* _process_data: the raw samples passed
    scale_preamble,   \* _process_data: the preamble passed
    scaled,           \* _process_data: what it returned or raised
    size_source,      \* acquisition_sample_size: the source passed
    size_out          \* acquisition_sample_size: what it returned or raised

vars == <<wfsu, samples, math_eqn, waveform_source, pc, sparsing, arg_points,
          requested_points, expected_points, iterations, i, data, values, log,
          transfers, result, found, store, written, write_count, assigned, got,
          ydata,
          scale_preamble, scaled, size_source, size_out>>

\* the arguments and results of the functions that are called on their own
pure == <<ydata, scale_preamble, scaled, size_source, size_out>>

instrument == <<samples, math_eqn>>

\* the channel controls and the display_parameter setting
controls == <<store, written, write_count, assigned, got>>

locals == <<sparsing, arg_points, requested_points, expected_points, iterations,
            i, data, values>>

NoPreamble == [sparsing |-> -1, requested_points |-> -1, first_point |-> -1,
               source |-> ""]

NoResult == [status |-> "none", error |-> "none", data |-> <<>>,
             preamble |-> NoPreamble]

Raised(error) == [status |-> "raised", error |-> error, data |-> <<>>,
                  preamble |-> NoPreamble]

Returned(chunks, preamble) == [status |-> "returned", error |-> "none",
                               data |-> chunks, preamble |-> preamble]

NoScaled == [err |-> "none", data_points |-> <<>>, time_points |-> <<>>]

NoScalePreamble ==
    [source |-> "", ydiv |-> RatOfInt(0), yoffset |-> RatOfInt(0),
     xdiv |-> RatOfInt(0), sparsing |-> 0, sampling_rate |-> RatOfInt(1)]

\* no function has been called on its own
PureIdle ==
    /\ ydata = <<>>
    /\ scale_preamble = NoScalePreamble
    /\ scaled = NoScaled
    /\ size_source = ""
    /\ size_out = Outcome("none", 0, <<>>)

\* the outcome of a property access: the property and the channel, the
\* value assigned or returned, the slot and name given to display_parameter
Access(op, control, id, val, slot, name, err) ==
    [op |-> op, control |-> control, channel |-> id, val |-> val, slot |-> slot,
     name |-> name, err |-> err]

NoAccess == Access("none", "", 0, NoValue, 0, "", "none")

\* the instrument after a reset, no property accessed
ControlsIdle ==
    /\ store = StoreDefault
    /\ written = NoCommand
    /\ write_count = 0
    /\ assigned = [id \in ChannelIds |-> [c \in {"bwlimit", "coupling", "invert"} |-> NoValue]]
    /\ got = NoAccess

\* the driver after construction, no acquisition running
DriverIdle ==
    /\ wfsu = [SP |-> 1, NP |-> 0, FP |-> 0]
    /\ waveform_source = "C1"
    /\ pc = "idle"
    /\ sparsing = 1
    /\ arg_points = 0
    /\ requested_points = 0
    /\ expected_points = 0
    /\ iterations = 0
    /\ i = 0
    /\ data = <<>>
    /\ values = NoMessage
    /\ log = <<>>
    /\ transfers = <<>>
    /\ result = NoResult
    /\ found = 0

Init ==
    /\ samples \in SampleConfigs
    /\ math_eqn \in Equations
    /\ DriverIdle
    /\ ControlsIdle
    /\ PureIdle

\* ------------------------------------------------------------- the caller

\* the waveform_source attribute is assigned between two acquisitions
SetSource(source) ==
    /\ pc = "idle"
    /\ waveform_source' = source
    /\ UNCHANGED <<pure, wfsu, instrument, found, controls, pc, locals, log, transfers, result>>

\* _acquire_data(requested_points, sparsing) is entered: lines 1221-1223
\* write the sparsing, the number of points and first point 0
Call(points, sp) ==
    /\ pc = "idle"
    /\ sparsing' = sp
    /\ arg_points' = points
    /\ requested_points' = points
    /\ wfsu' = [SP |-> sp, NP |-> points, FP |-> 0]
    /\ log' = <<Event("write", "SP", sp), Event("write", "NP", points),
                Event("write", "FP", 0)>>
    /\ found' = wfsu.FP
    /\ pc' = "size"
    /\ UNCHANGED <<pure, instrument, controls, waveform_source, expected_points,
                   iterations, i, data, values, transfers, result>>

\* the caller has taken the result or the error; the next call starts
\* afresh, on an instrument that keeps its waveform setup
Release ==
    /\ pc = "done"
    /\ pc' = "idle"
    /\ sparsing' = 1
    /\ arg_points' = 0
    /\ requested_points' = 0
    /\ expected_points' = 0
    /\ iterations' = 0
    /\ i' = 0
    /\ data' = <<>>
    /\ values' = NoMessage
    /\ log' = <<>>
    /\ transfers' = <<>>
    /\ result' = NoResult
    /\ found' = 0
    /\ UNCHANGED <<pure, wfsu, instrument, controls, waveform_source>>

\* ------------------------------------------------------- _acquire_data

\* an exception leaves _acquire_data: nothing is returned
Raise(error) ==
    /\ pc' = "done"
    /\ result' = Raised(error)

\* lines 1226-1238: the sample size of the source, the expected points, the
\* number of iterations; int(sample_points / 0) raises ZeroDivisionError
SampleSize ==
    /\ pc = "size"
    /\ LET size == AcquisitionSampleSize(waveform_source, math_eqn, samples)
       IN  /\ log' = log \o size.queries
           /\ IF size.err # "none"
              THEN /\ Raise(size.err)
                   /\ UNCHANGED <<expected_points, iterations, i, data>>
              ELSE IF sparsing = 0
              THEN /\ Raise("ZeroDivisionError")
                   /\ UNCHANGED <<expected_points, iterations, i, data>>
              ELSE /\ expected_points' = ExpectedPoints(requested_points, size.val, sparsing)
                   /\ iterations' = Iterations(expected_points')
                   /\ i' = 0
                   /\ data' = <<>>
                   /\ pc' = "loop"
                   /\ UNCHANGED result
    /\ UNCHANGED <<pure, wfsu, instrument, found, controls, waveform_source, sparsing, arg_points,
                   requested_points, values, transfers>>

\* the queries of waveform_preamble and _fill_yaxis_preamble, in order
PreambleQueries(source) ==
    <<Event("query", "WFSU", 0), Event("query", "sampling_rate", 0),
      Event("query", "memory_size", 0), Event("query", "timebase_scale", 0),
      Event("query", "timebase_offset", 0)>>
    \o (IF source = "MATH"
        THEN <<Event("query", "math_vdiv", 0), Event("query", "math_vpos", 0)>>
        ELSE <<Event("query", "scale", 0), Event("query", "offset", 0)>>)

\* the loop entered for chunk i with the preamble read inside the loop
ChunkSetupReadingPreamble ==
    /\ pc = "loop"
    /\ i < iterations
    /\ LET points == ChunkRequestedPoints(expected_points, i)
           first_point == ChunkFirstPoint(i, sparsing)
       IN  /\ requested_points' = points
           /\ wfsu' = [wfsu EXCEPT !.NP = points, !.FP = first_point]
           /\ log' = log \o PreambleQueries(waveform_source)
                         \o <<Event("write", "NP", points),
                              Event("write", "FP", first_point)>>
    /\ pc' = "digitize"
    /\ UNCHANGED <<pure, instrument, found, controls, waveform_source, sparsing, arg_points,
                   expected_points, iterations, i, data, values, transfers, result>>

\* the loop entered for chunk i with the sparsing written again
ChunkSetupWritingSparsing ==
    /\ pc = "loop"
    /\ i < iterations
    /\ LET points == ChunkRequestedPoints(expected_points, i)
           first_point == ChunkFirstPoint(i, sparsing)
       IN  /\ requested_points' = points
           /\ wfsu' = [SP |-> sparsing, NP |-> points, FP |-> first_point]
           /\ log' = log \o <<Event("write", "SP", sparsing),
                              Event("write", "NP", points),
                              Event("write", "FP", first_point)>>
    /\ pc' = "digitize"
    /\ UNCHANGED <<pure, instrument, found, controls, waveform_source, sparsing, arg_points,
                   expected_points, iterations, i, data, values, transfers, result>>

\* the loop entered for chunk i with the first point counted from the one
\* the call found on the instrument
ChunkSetupFromFound ==
    /\ pc = "loop"
    /\ i < iterations
    /\ LET points == ChunkRequestedPoints(expected_points, i)
           first_point == found + ChunkFirstPoint(i, sparsing)
       IN  /\ requested_points' = points
           /\ wfsu' = [wfsu EXCEPT !.NP = points, !.FP = first_point]
           /\ log' = log \o <<Event("write", "NP", points),
                              Event("write", "FP", first_point)>>
    /\ pc' = "digitize"
    /\ UNCHANGED <<pure, instrument, found, controls, waveform_source, sparsing, arg_points,
                   expected_points, iterations, i, data, values, transfers, result>>

\* lines 1239-1251: the loop is entered for chunk i; the points of the chunk
\* and its first point are written
ChunkSetup ==
    /\ pc = "loop"
    /\ i < iterations
    /\ LET points == ChunkRequestedPoints(expected_points, i)
           first_point == ChunkFirstPoint(i, sparsing)
       IN  /\ requested_points' = points
           /\ wfsu' = [wfsu EXCEPT !.NP = points, !.FP = first_point]
           /\ log' = log \o <<Event("write", "NP", points),
                              Event("write", "FP", first_point)>>
    /\ pc' = "digitize"
    /\ UNCHANGED <<pure, instrument, found, controls, waveform_source, sparsing, arg_points,
                   expected_points, iterations, i, data, values, transfers, result>>

\* what the instrument may send for one block transfer under its setup: the
\* frame asked for, a shorter or longer frame, and frames with a damaged
\* prefix, count field or footer
Replies ==
    LET n == wfsu.NP
        count == ZeroPad(n, 9)
        frame(header, footer) == Frame(header, wfsu.FP, wfsu.SP, n, footer)
    IN  { frame(GoodHeader(n), Newline),
          Frame(GoodHeader(n + 1), wfsu.FP, wfsu.SP, n + 1, Newline),
          Frame(GoodHeader(n - 1), wfsu.FP, wfsu.SP, n - 1, Newline),
          frame(<<"D", "A", "T", "2", ",", "#", "9">> \o count, Newline),
          frame(GoodHeader(n), "\r"),
          frame(GoodHeader(n), NonAscii),
          frame(GoodHeader(n + 1), Newline),
          frame(HeaderPrefix \o <<"x">> \o Tail(count), Newline),
          frame(HeaderPrefix \o <<NonAscii>> \o Tail(count), Newline),
          frame(HeaderPrefix \o <<" ">> \o Tail(count), Newline) }

\* line 1253, _digitize: one block transfer; a reply of another length than
\* requested_bytes raises BufferError
Digitize ==
    /\ pc = "digitize"
    /\ \E message \in Replies :
        /\ values' = message
        /\ transfers' = Append(transfers,
                               [first_point |-> wfsu.FP, points |-> wfsu.NP,
                                sparsing |-> wfsu.SP, reply |-> message])
        /\ IF DigitizeError(message, RequestedBytes(requested_points)) # "none"
           THEN Raise(DigitizeError(message, RequestedBytes(requested_points)))
           ELSE pc' = "check" /\ UNCHANGED result
    /\ log' = Append(log, Event("transfer", waveform_source, Len(transfers) + 1))
    /\ UNCHANGED <<pure, wfsu, instrument, found, controls, waveform_source, sparsing, arg_points,
                   requested_points, expected_points, iterations, i, data>>

\* the sanity checks with a chunk that fails them transferred again
CheckChunkRetry ==
    /\ pc = "check"
    /\ IF HeaderFooterSanityChecks(values) # "none" \/ NpointsSanityChecks(values) # "none"
       THEN pc' = "digitize" /\ UNCHANGED <<data, i, result>>
       ELSE /\ data' = Append(data, values.payload)
            /\ i' = i + 1
            /\ pc' = "loop"
            /\ UNCHANGED result
    /\ UNCHANGED <<pure, wfsu, instrument, found, controls, waveform_source, sparsing, arg_points,
                   requested_points, expected_points, iterations, values, log,
                   transfers>>

\* the sanity checks and the append without i += 1
CheckChunkNoIncrement ==
    /\ pc = "check"
    /\ IF HeaderFooterSanityChecks(values) # "none"
       THEN Raise(HeaderFooterSanityChecks(values)) /\ UNCHANGED <<data, i>>
       ELSE IF NpointsSanityChecks(values) # "none"
       THEN Raise(NpointsSanityChecks(values)) /\ UNCHANGED <<data, i>>
       ELSE /\ data' = Append(data, values.payload)
            /\ i' = i
            /\ pc' = "loop"
            /\ UNCHANGED result
    /\ UNCHANGED <<pure, wfsu, instrument, found, controls, waveform_source, sparsing, arg_points,
                   requested_points, expected_points, iterations, values, log,
                   transfers>>

\* lines 1255-1259: the sanity checks, then the payload is appended
CheckChunk ==
    /\ pc = "check"
    /\ IF HeaderFooterSanityChecks(values) # "none"
       THEN Raise(HeaderFooterSanityChecks(values)) /\ UNCHANGED <<data, i>>
       ELSE IF NpointsSanityChecks(values) # "none"
       THEN Raise(NpointsSanityChecks(values)) /\ UNCHANGED <<data, i>>
       ELSE /\ data' = Append(data, values.payload)
            /\ i' = i + 1
            /\ pc' = "loop"
            /\ UNCHANGED result
    /\ UNCHANGED <<pure, wfsu, instrument, found, controls, waveform_source, sparsing, arg_points,
                   requested_points, expected_points, iterations, values, log,
                   transfers>>

\* np.concatenate taking an empty list for an empty array
ConcatenateEmpty ==
    /\ pc = "loop"
    /\ ~(i < iterations)
    /\ pc' = "preamble"
    /\ UNCHANGED result
    /\ UNCHANGED <<pure, wfsu, instrument, found, controls, waveform_source, locals, log,
                   transfers>>

\* line 1260: np.concatenate(data) raises ValueError on an empty list
Concatenate ==
    /\ pc = "loop"
    /\ ~(i < iterations)
    /\ IF data = <<>>
       THEN Raise("ValueError")
       ELSE pc' = "preamble" /\ UNCHANGED result
    /\ UNCHANGED <<pure, wfsu, instrument, found, controls, waveform_source, locals, log,
                   transfers>>

\* waveform_preamble: WFSU? and the source
WaveformPreamble ==
    [sparsing |-> wfsu.SP, requested_points |-> wfsu.NP, first_point |-> wfsu.FP,
     source |-> waveform_source]

\* the return with the caller's setup written back before the preamble is read
ReadPreambleRestoring ==
    /\ pc = "preamble"
    /\ wfsu' = [wfsu EXCEPT !.NP = arg_points, !.FP = 0]
    /\ log' = log \o <<Event("write", "NP", arg_points), Event("write", "FP", 0)>>
                  \o PreambleQueries(waveform_source)
    /\ result' = Returned(data, [sparsing |-> wfsu.SP, requested_points |-> arg_points,
                                 first_point |-> 0, source |-> waveform_source])
    /\ pc' = "done"
    /\ UNCHANGED <<pure, instrument, found, controls, waveform_source, locals, transfers>>

\* lines 1261-1262: the preamble is read and both are returned
ReadPreamble ==
    /\ pc = "preamble"
    /\ log' = log \o PreambleQueries(waveform_source)
    /\ result' = Returned(data, WaveformPreamble)
    /\ pc' = "done"
    /\ UNCHANGED <<pure, wfsu, instrument, found, controls, waveform_source, locals, transfers>>

Next ==
    \/ \E source \in Sources : SetSource(source)
    \/ \E points \in RequestedPoints, sp \in Sparsings : Call(points, sp)
    \/ SampleSize
    \/ ChunkSetup
    \/ Digitize
    \/ CheckChunk
    \/ Concatenate
    \/ ReadPreamble
    \/ Release

Spec == Init /\ [][Next]_vars

\* the positions of a call that is running
Running == {"size", "loop", "digitize", "check", "preamble"}

\* the call leaves position p
Advance(p) == pc = p /\ pc' \in (Running \cup {"done"}) \ {p}

\* _acquire_data is sequential code and every write, query and block
\* transfer is answered: a running call does not stay at a position.  The
\* caller is not obliged to call again, to change the source or to collect
\* a result.
Fairness == \A p \in Running : WF_pc(Advance(p))

SpecLive == Init /\ [][Next]_vars /\ Fairness

\* ------------------------------------------------ properties of _acquire_data

\* the two operand channels of the math trace's equation, when it has two
MathOperands ==
    {pair \in Channels \X Channels :
        \E op \in OperatorChars :
            math_eqn = Equation(SourceChars(pair[1]), op, SourceChars(pair[2]))}

\* the sample count the instrument reports for the selected source
Available ==
    IF waveform_source \in Channels THEN samples[waveform_source]
    ELSE LET pair == CHOOSE pair \in MathOperands : TRUE
         IN  IF samples[pair[1]] <= samples[pair[2]]
             THEN samples[pair[1]] ELSE samples[pair[2]]

\* E of the running call: the points asked for, capped by those available at
\* the call's sparsing
ClaimedPoints ==
    LET all == Available \div sparsing
    IN  IF arg_points > 0 /\ arg_points < all THEN arg_points ELSE all

\* C1: whenever _acquire_data returns normally, the reassembled sample
\* sequence has exactly E samples, E = min(requested, floor(available /
\* sparsing)) when points were requested and floor(available / sparsing)
\* otherwise
C1_ReturnedLength ==
    result.status = "returned" =>
        /\ sparsing >= 1
        /\ TotalPoints(result.data) = ClaimedPoints

\* a call for all points at sparsing 2 returned two chunks
C1_Witness ==
    /\ result.status = "returned"
    /\ arg_points = 0
    /\ sparsing = 2
    /\ Len(result.data) = 2
    /\ TotalPoints(result.data) > chunk_points

\* a capped call returned: fewer points than the instrument holds
C1_WitnessCapped ==
    /\ result.status = "returned"
    /\ arg_points > chunk_points
    /\ TotalPoints(result.data) = arg_points
    /\ arg_points < Available \div sparsing

\* C2: a successful acquisition of E samples has issued exactly
\* ceil(E / C) block transfers, C the points one chunk holds
C2_TransferCount ==
    result.status = "returned" =>
        /\ Len(transfers) * chunk_points >= ClaimedPoints
        /\ (Len(transfers) - 1) * chunk_points < ClaimedPoints

\* an acquisition of more than two chunks has returned
C2_Witness ==
    /\ result.status = "returned"
    /\ Len(transfers) >= 3
    /\ ClaimedPoints > 2 * chunk_points

\* the position in the log of block transfer k (0 for k = 0)
TransferAt(k) ==
    IF k = 0 THEN 0
    ELSE CHOOSE p \in 1..Len(log) : log[p].op = "transfer" /\ log[p].val = k

\* the position of the last write of setting key before position p (else 0)
LastWrite(key, p) ==
    LET writes == {q \in 1..(p - 1) : log[q].op = "write" /\ log[q].key = key}
    IN  IF writes = {} THEN 0 ELSE CHOOSE q \in writes : \A r \in writes : r <= q

\* C3: chunk k (0-based) is transferred under points-to-return
\* min(E - k*C, C) and first point k*C*sparsing, both written after the
\* previous transfer and before this one, so the transfers of a call see
\* the first points 0, C*S, 2*C*S, ... in that order
C3_ChunkSettings ==
    \A n \in 1..Len(transfers) :
        LET k == n - 1
            left == ClaimedPoints - k * chunk_points
            points == IF left < chunk_points THEN left ELSE chunk_points
            first_point == k * chunk_points * sparsing
            np == LastWrite("NP", TransferAt(n))
            fp == LastWrite("FP", TransferAt(n))
        IN  /\ transfers[n].points = points
            /\ transfers[n].first_point = first_point
            /\ np > TransferAt(n - 1) /\ log[np].val = points
            /\ fp > TransferAt(n - 1) /\ log[fp].val = first_point

\* the second chunk of a call at sparsing 2 has been transferred
C3_Witness ==
    /\ Len(transfers) >= 2
    /\ sparsing = 2
    /\ transfers[2].first_point = 2 * chunk_points
    /\ transfers[1].first_point = 0


\* the reply breaks the framing: its header does not begin with "DAT1,#9",
\* or its last byte is not the newline, or the decimal count of its header
\* is not the length of its payload
Malformed(message) ==
    LET field == SubSeq(message.header, Len(HeaderPrefix) + 1, Len(message.header))
    IN  \/ SubSeq(message.header, 1, Len(HeaderPrefix)) # HeaderPrefix
        \/ message.footer # Newline
        \/ AllDigits(field) /\ DecimalValue(field) # message.payload.n

\* C4: when the reply to a block transfer is malformed, _acquire_data does
\* not return: it raises an error, and neither the payloads of the chunks
\* accepted before nor a preamble reach the caller
C4_MalformedRaises ==
    (\E n \in 1..Len(transfers) : Malformed(transfers[n].reply)) =>
        /\ result.status # "returned"
        /\ result.data = <<>>
        /\ result.preamble = NoPreamble
        /\ pc = "done" => result.status = "raised" /\ result.error # "none"

\* the call was aborted by a malformed second chunk after the first chunk
\* had been accepted
C4_Witness ==
    /\ pc = "done"
    /\ result.status = "raised"
    /\ Len(transfers) = 2
    /\ Len(data) = 1
    /\ Malformed(transfers[2].reply)
    /\ ~Malformed(transfers[1].reply)

\* the reply of a transfer fails the byte count, header, footer or declared
\* count check of the driver
FailsChecks(transfer) ==
    \/ DigitizeError(transfer.reply, RequestedBytes(transfer.points)) # "none"
    \/ HeaderFooterSanityChecks(transfer.reply) # "none"
    \/ NpointsSanityChecks(transfer.reply) # "none"

\* C5: no chunk is requested twice within one acquisition; a reply that
\* fails a check is the last transfer of its call, which has issued exactly
\* k + 1 transfers when it aborts on chunk k
C5_NoRetry ==
    /\ \A n \in 1..(Len(transfers) - 1) : ~FailsChecks(transfers[n])
    /\ \A m, n \in 1..Len(transfers) :
         m # n => transfers[m].first_point # transfers[n].first_point
    /\ (pc = "done" /\ transfers # <<>> /\ FailsChecks(transfers[Len(transfers)])) =>
         /\ result.status = "raised"
         /\ Len(transfers) = i + 1

\* the call aborted on its second chunk (k = 1) after two transfers
C5_Witness ==
    /\ pc = "done"
    /\ result.status = "raised"
    /\ i = 1
    /\ Len(transfers) = 2
    /\ FailsChecks(transfers[2])

\* C6: an acquisition with an unresolvable source or a non-positive sparsing
\* is rejected before any command is written to or queried from the
\* instrument
C6_RejectedBeforeIO ==
    (/\ pc = "done"
     /\ result.status = "raised"
     /\ (waveform_source \notin Channels \cup {"MATH"} \/ sparsing <= 0)) =>
        log = <<>>

\* the positions in the log where the preamble is read (WFSU?)
PreambleReads == {p \in 1..Len(log) : log[p] = Event("query", "WFSU", 0)}

\* C7: the preamble is read exactly once by a successful acquisition, after
\* the last chunk has been validated and appended and so after every block
\* transfer; an acquisition that has not returned has not read it
C7_PreambleOnce ==
    /\ Cardinality(PreambleReads) = (IF result.status = "returned" THEN 1 ELSE 0)
    /\ \A p \in PreambleReads :
         /\ \A q \in 1..Len(log) : log[q].op = "transfer" => q < p
         /\ i = iterations
         /\ Len(data) = Len(transfers)
         /\ Len(data) = iterations

\* a three-chunk acquisition has returned with its one preamble read
C7_Witness ==
    /\ result.status = "returned"
    /\ Len(transfers) >= 3
    /\ Cardinality(PreambleReads) = 1

\* --------------------------------------- acquisition_sample_size on its own

\* counts of the operand channels: none, one, and the 5,000 and 8,000 of the
\* specification's example
OperandCounts == {0, 1, 5000, 8000}

\* every equation "left op right" over the four channels, an equation over a
\* math trace, and a reply that holds no equation
AllEquations ==
    { Equation(SourceChars(l), op, SourceChars(r)) :
        l \in Channels, op \in OperatorChars, r \in Channels }
    \cup { Equation(SourceChars("F1"), "+", SourceChars("C1")),
           Equation(SourceChars("C1"), "+", SourceChars("F1")),
           SourceChars("C1") }

InitSize ==
    /\ samples \in [Channels -> OperandCounts]
    /\ math_eqn \in AllEquations
    /\ DriverIdle
    /\ ControlsIdle
    /\ PureIdle

\* acquisition_sample_size(source) is called
CallSampleSize(source) ==
    /\ size_source = ""
    /\ size_source' = source
    /\ size_out' = AcquisitionSampleSize(source, math_eqn, samples)
    /\ UNCHANGED <<wfsu, instrument, found, controls, waveform_source, pc, locals, log, transfers,
                   result, ydata, scale_preamble, scaled>>

NextSize == \E source \in Sources : CallSampleSize(source)

SpecSize == InitSize /\ [][NextSize]_vars

MaxLen == 3

\* bytes at the edges of the signed and the unsigned range
EdgeBytes == {0, 127, 128, 255}

RECURSIVE SeqsUpTo(_, _)
SeqsUpTo(S, n) ==
    IF n = 0 THEN {<<>>}
    ELSE LET shorter == SeqsUpTo(S, n - 1)
         IN  shorter \cup {Append(q, x) : q \in {r \in shorter : Len(r) = n - 1}, x \in S}

RawInputs == {<<b>> : b \in 0..255} \cup SeqsUpTo(EdgeBytes, MaxLen)

ScalePreambles ==
    [source : {"C1", "C3", "MATH"},
     ydiv : {Rat(1, 2), Rat(1, 1000)},
     yoffset : {RatOfInt(0), Rat(-1, 4), Rat(3, 2)},
     xdiv : {Rat(1, 1000), Rat(1, 500)},
     sparsing : {1, 2},
     sampling_rate : {RatOfInt(1000000000), RatOfInt(2500)}]

InitScale ==
    /\ samples = [c \in Channels |-> 0]
    /\ math_eqn = SourceChars("C1")
    /\ DriverIdle
    /\ ControlsIdle
    /\ ydata \in RawInputs
    /\ scale_preamble \in ScalePreambles
    /\ scaled = NoScaled
    /\ size_source = ""
    /\ size_out = Outcome("none", 0, <<>>)

\* _process_data(ydata, preamble) is called
CallProcessData ==
    /\ size_source = ""
    /\ size_source' = "scaled"
    /\ scaled' = ProcessData(ydata, scale_preamble)
    /\ UNCHANGED <<wfsu, instrument, found, controls, waveform_source, pc, locals, log, transfers,
                   result, ydata, scale_preamble, size_out>>

NextScale == CallProcessData

SpecScale == InitScale /\ [][NextScale]_vars

\* _process_data has been called on a raw sequence that is not empty
Scaled == size_source = "scaled" /\ ydata # <<>>

\* C9: for a raw sequence of N >= 1 samples _process_data returns N voltages
\* and N times, index-aligned: voltage i is what sample i alone scales to,
\* and time i is fixed by the index i, the times growing with the index
\* whatever the samples are
C9_ScaledAligned ==
    Scaled =>
        LET N == Len(ydata)
            zeros == ProcessData([k \in 1..N |-> 0], scale_preamble)
        IN  /\ scaled.err = "none"
            /\ Len(scaled.data_points) = N
            /\ Len(scaled.time_points) = N
            /\ \A k \in 1..N :
                 scaled.data_points[k] =
                     ProcessData(<<ydata[k]>>, scale_preamble).data_points[1]
            /\ \A k \in 1..N : scaled.time_points[k] = zeros.time_points[k]
            /\ \A k \in 1..(N - 1) :
                 RatSub(scaled.time_points[k + 1], scaled.time_points[k]).n > 0

\* three samples, the first two different, were scaled
C9_Witness ==
    /\ Scaled
    /\ Len(ydata) = 3
    /\ ydata[1] # ydata[2]
    /\ Len(scaled.data_points) = 3
    /\ scaled.data_points[1] # scaled.data_points[2]

\* C10: for a direct channel source every raw byte b is read as the signed
\* value s (b below 128, b - 256 from 128 on) and scaled to
\* s * (ydiv / 25) - yoffset
C10_ChannelVoltage ==
    (Scaled /\ scale_preamble.source \in Channels) =>
        \A k \in 1..Len(ydata) :
            LET b == ydata[k]
                s == IF b < 128 THEN b ELSE b - 256
                step == RatDiv(scale_preamble.ydiv, RatOfInt(25))
            IN  scaled.data_points[k] =
                    RatSub(RatMul(RatOfInt(s), step), scale_preamble.yoffset)

\* ydiv = 0.5, yoffset = 0 and the raw value 50 gave 1.0
C10_Witness ==
    /\ Scaled
    /\ scale_preamble.source = "C1"
    /\ scale_preamble.ydiv = Rat(1, 2)
    /\ scale_preamble.yoffset = RatOfInt(0)
    /\ ydata = <<50>>
    /\ scaled.data_points = <<RatOfInt(1)>>

\* a byte of the upper half was scaled to a negative voltage
C10_WitnessNegative ==
    /\ Scaled
    /\ scale_preamble.source = "C3"
    /\ scale_preamble.yoffset = RatOfInt(0)
    /\ ydata = <<200>>
    /\ scaled.data_points[1].n < 0

C11_WitnessOffset ==
    /\ Scaled
    /\ scale_preamble.source = "MATH"
    /\ scale_preamble.ydiv = Rat(1, 2)
    /\ scale_preamble.yoffset = Rat(3, 2)
    /\ ydata = <<128>>
    /\ scaled.data_points = <<Rat(-5, 1000)>>

\* -(xdiv * grid_number / 2), the time of index 0
TimeOrigin(preamble) ==
    RatNeg(RatDiv(RatMul(preamble.xdiv, RatOfInt(grid_number)), RatOfInt(2)))

\* C12: the time of the sample of index i (from 0) is
\* -(xdiv * grid_number / 2) + (i * sparsing) / sampling_rate; index 0 is at
\* -(xdiv * grid_number / 2), which is -7e-3 for xdiv = 1e-3 and the 14
\* divisions, and two consecutive times differ by sparsing / sampling_rate
C12_TimeAxis ==
    Scaled =>
        LET N == Len(ydata)
            step == RatDiv(RatOfInt(scale_preamble.sparsing),
                           scale_preamble.sampling_rate)
        IN  /\ \A k \in 1..N :
                 scaled.time_points[k] =
                     RatAdd(TimeOrigin(scale_preamble),
                            RatDiv(RatOfInt((k - 1) * scale_preamble.sparsing),
                                   scale_preamble.sampling_rate))
            /\ scaled.time_points[1] = TimeOrigin(scale_preamble)
            /\ scale_preamble.xdiv = Rat(1, 1000) =>
                 scaled.time_points[1] = Rat(-7, 1000)
            /\ \A k \in 1..(N - 1) :
                 RatSub(scaled.time_points[k + 1], scaled.time_points[k]) = step

\* three samples at sparsing 2 and 2500 samples a second: -7 ms, then
\* steps of 0.8 ms
C12_Witness ==
    /\ Scaled
    /\ Len(ydata) = 3
    /\ scale_preamble.xdiv = Rat(1, 1000)
    /\ scale_preamble.sparsing = 2
    /\ scale_preamble.sampling_rate = RatOfInt(2500)
    /\ scaled.time_points = <<Rat(-7, 1000), Rat(-62, 10000), Rat(-54, 10000)>>

\* the transfers of the running call whose payload was accepted: chunk n
\* of data is the payload of transfer n
Accepted == 1..Len(data)

C13_WitnessBlank ==
    /\ Len(data) >= 1
    /\ transfers[1].reply.header[Len(HeaderPrefix) + 1] = " "

\* C14: the sequence a successful acquisition returns is the payloads of
\* its transfers in the order of the chunks; chunk k (from 0) holds the n_k
\* points it asked for, which are the result indices k*C .. k*C + n_k - 1
\* (sample (k*C + j) * sparsing of the trace at index k*C + j), so the
\* chunks cover 0 .. E - 1 without a gap or an overlap; every chunk asks for
\* 1 to C points and every chunk but the last for C
C14_ChunksPartition ==
    result.status = "returned" =>
        LET K == Len(transfers)
        IN  /\ K >= 1
            /\ Len(result.data) = K
            /\ \A n \in 1..K :
                 LET k == n - 1
                     n_k == transfers[n].points
                 IN  /\ result.data[n] = transfers[n].reply.payload
                     /\ result.data[n].n = n_k
                     /\ result.data[n].first = (k * chunk_points) * sparsing
                     /\ result.data[n].step = sparsing
                     /\ n_k >= 1
                     /\ n_k <= chunk_points
                     /\ n < K => n_k = chunk_points
            /\ (K - 1) * chunk_points + transfers[K].points = ClaimedPoints

\* four chunks were joined, three full ones and a last one of one point
C14_Witness ==
    /\ result.status = "returned"
    /\ Len(result.data) = 4
    /\ result.data[1].n = chunk_points
    /\ result.data[3].n = chunk_points
    /\ result.data[4].n = 1
    /\ result.data[4].first = 3 * chunk_points

\* two chunks were joined at sparsing 2, the second shorter than a chunk
\* and read from sample 2 * C of the trace
C14_WitnessSparse ==
    /\ result.status = "returned"
    /\ sparsing = 2
    /\ Len(result.data) = 2
    /\ result.data[2].n < chunk_points
    /\ result.data[2].first = 2 * chunk_points

\* C15: the preamble _acquire_data returns holds in requested_points the
\* number of points the caller asked for, the requested_points argument,
\* however many chunks were read
C15_PreambleRequestedPoints ==
    result.status = "returned" => result.preamble.requested_points = arg_points

\* the positions in the log where the sparsing is written
SparsingWrites == {p \in 1..Len(log) : log[p].op = "write" /\ log[p].key = "SP"}

\* C16 as stated: before every block transfer, and after the transfer before
\* it, the sparsing is written together with the first point and the number
\* of points
C16_SparsingEveryChunk ==
    \A n \in 1..Len(transfers) :
        /\ LastWrite("SP", TransferAt(n)) > TransferAt(n - 1)
        /\ LastWrite("NP", TransferAt(n)) > TransferAt(n - 1)
        /\ LastWrite("FP", TransferAt(n)) > TransferAt(n - 1)

\* C16: the sparsing is written once by a call, at its entry and so before
\* its first transfer; the first point and the number of points are written
\* before every transfer, after the transfer before it; every transfer of
\* the call is made under the sparsing of the call
C16_SparsingOnce ==
    pc # "idle" =>
        /\ SparsingWrites = {1}
        /\ log[1] = Event("write", "SP", sparsing)
        /\ \A n \in 1..Len(transfers) :
             /\ LastWrite("SP", TransferAt(n)) = 1
             /\ LastWrite("NP", TransferAt(n)) > TransferAt(n - 1)
             /\ LastWrite("FP", TransferAt(n)) > TransferAt(n - 1)
             /\ transfers[n].sparsing = sparsing

\* the fourth chunk of a call at sparsing 1 was transferred: one write of
\* the sparsing, five of the first point
C16_Witness ==
    /\ Len(transfers) = 4
    /\ sparsing = 1
    /\ SparsingWrites = {1}
    /\ Cardinality({p \in 1..Len(log) : log[p].op = "write" /\ log[p].key = "FP"}) = 5

\* C17: whatever earlier calls left behind, the accumulator of a call holds
\* payloads of this call's transfers only, one for each chunk read so far;
\* the first transfer of the call is made at first point 0, and what the
\* call returns is this accumulator
C17_FreshCall ==
    /\ Len(data) <= Len(transfers)
    /\ \A n \in 1..Len(data) : data[n] = transfers[n].reply.payload
    /\ pc \in {"loop", "digitize", "check"} => Len(data) = i
    /\ pc = "digitize" => Len(transfers) = i
    /\ transfers # <<>> =>
         /\ transfers[1].first_point = 0
         /\ transfers[1].reply.payload.first = 0
    /\ result.status = "returned" =>
         /\ result.data = data
         /\ Len(result.data) = Len(transfers)

\* a call that found the first point of an earlier call's last chunk on the
\* instrument has returned two chunks, the first read from point 0
C17_Witness ==
    /\ found > chunk_points
    /\ result.status = "returned"
    /\ Len(result.data) = 2
    /\ transfers[1].first_point = 0
    /\ result.data[1].first = 0

\* the call is inside the chunk loop or past it
InLoop == pc \in {"loop", "digitize", "check", "preamble"}

\* C18: when every round trip is answered, a call that has been entered
\* returns or raises; the loop makes at most ceil(E / C) iterations, and
\* every iteration ends with the loop index one higher, the index never
\* going down inside a call
C18_Terminates ==
    /\ [](/\ i <= iterations
          /\ Len(transfers) <= iterations
          /\ InLoop => /\ iterations * chunk_points >= ClaimedPoints
                       /\ (iterations - 1) * chunk_points < ClaimedPoints)
    /\ [][/\ (pc = "check" /\ pc' = "loop") => i' = i + 1
          /\ (InLoop /\ pc' # "done") => i' >= i
          /\ (pc = "loop" /\ pc' = "digitize") => i < iterations]_vars
    /\ (pc = "size") ~> (pc = "done" /\ result.status \in {"returned", "raised"})
    /\ (pc = "digitize") ~> (pc = "done")

\* a call of four iterations has returned
C18_Witness ==
    /\ pc = "done"
    /\ result.status = "returned"
    /\ iterations = 4
    /\ i = 4
    /\ Len(transfers) = 4

\* a call has raised in its third iteration
C18_WitnessRaised ==
    /\ pc = "done"
    /\ result.status = "raised"
    /\ i = 2
    /\ Len(transfers) = 3

\* ------------------------------------------- the channel controls on their own

\* commands the setters write in one run
MaxWrites == 2

\* values assigned to a control: the keys of the three dicts and a text
\* that is no key of any
ControlInputs ==
    {bwlimit_values[k].key : k \in 1..Len(bwlimit_values)}
    \cup {coupling_values[k].key : k \in 1..Len(coupling_values)}
    \cup {invert_values[k].key : k \in 1..Len(invert_values)}
    \cup {StrVal(<<"o", "f", "f">>)}

InitControls ==
    /\ samples = [c \in Channels |-> 0]
    /\ math_eqn = SourceChars("C1")
    /\ DriverIdle
    /\ ControlsIdle
    /\ PureIdle

\* instrument.ch(id).<control> = value
SetControl(id, control, value) ==
    /\ write_count < MaxWrites
    /\ LET set == ControlSet(control, id, value)
       IN  /\ got' = Access("set", control.name, id, value, 0, "", set.err)
           /\ IF set.err # "none"
              THEN UNCHANGED <<store, written, write_count, assigned>>
              ELSE /\ store' = InstrumentWrite(store, set.command)
                   /\ written' = set.command
                   /\ write_count' = write_count + 1
                   /\ assigned' = [assigned EXCEPT ![id][control.name] = value]
    /\ UNCHANGED <<pure, wfsu, instrument, found, waveform_source, pc, locals, log,
                   transfers, result>>

\* instrument.ch(id).<control> is read
GetControl(id, control) ==
    /\ LET reply == InstrumentAsk(store, InsertId(GetCommand(control), id))
           get == ControlGet(control, reply)
       IN  got' = Access("get", control.name, id, get.val, 0, "", get.err)
    /\ UNCHANGED <<pure, wfsu, instrument, found, waveform_source, pc, locals, log,
                   transfers, result, store, written, write_count, assigned>>

NextControls ==
    \/ \E id \in ChannelIds, control \in ChannelControls, value \in ControlInputs :
          SetControl(id, control, value)
    \/ \E id \in ChannelIds, control \in ChannelControls : GetControl(id, control)

SpecControls == InitControls /\ [][NextControls]_vars

\* C19: on an instrument that keeps the text written to a property and
\* returns it, reading bwlimit, coupling or invert of a channel returns the
\* value last assigned to that control of that channel, for each of the
\* channels 1 to 4 and every value the control allows; no two values of a
\* control are written as the same text
C19_SetThenRead ==
    /\ got.op = "get" /\ assigned[got.channel][got.control] # NoValue =>
         /\ got.err = "none"
         /\ got.val = assigned[got.channel][got.control]
    /\ got.op = "set" /\ got.err = "none" =>
         \E control \in ChannelControls :
             /\ control.name = got.control
             /\ Cardinality(KeysEqual(got.val, control.values)) = 1
             /\ written.channel = got.channel
             /\ store[<<control.get, got.channel>>] =
                    FormatS(MapValue(got.val, control.values))
    /\ \A control \in ChannelControls :
         \A j, k \in 1..Len(control.values) :
             j # k => ~PyEq(control.values[j].val, control.values[k].val)

\* invert of channel 3 was assigned True, coupling of channel 4 after it,
\* and invert of channel 3 was read as True
C19_Witness ==
    /\ write_count = 2
    /\ assigned[3]["invert"] = BoolVal(TRUE)
    /\ assigned[4]["coupling"] = StrVal(<<"d", "c", "5", "0">>)
    /\ written.object = coupling.set
    /\ got = Access("get", "invert", 3, BoolVal(TRUE), 0, "", "none")

\* bwlimit of channel 2 was assigned "1GHz" and read back
C19_WitnessBandwidth ==
    /\ assigned[2]["bwlimit"] = StrVal(<<"1", "G", "H", "z">>)
    /\ store[<<bwlimit.get, 2>>] = <<"F", "u", "l", "l">>
    /\ got = Access("get", "bwlimit", 2, StrVal(<<"1", "G", "H", "z">>), 0, "", "none")

\* ------------------------------------------------ display_parameter on its own

\* slots given to display_parameter: P1 to P8 and the two next to them
Slots == 0..9

\* names given: those of the table of display_parameter, three keys of
\* measurable_parameters_full and a name of neither
ParameterNames == measurable_parameters \cup {"pkpk", "Range", "TAA", "bogus"}

DisplayInputs == {<<slot, name>> : slot \in Slots, name \in ParameterNames}

\* instrument.ch(id).display_parameter = value
SetDisplayParameter(id, value) ==
    /\ LET set == DisplayParameterSet(id, value)
       IN  /\ got' = Access("set", "display_parameter", id, NoValue, value[1], value[2],
                            set.err)
           /\ IF set.err # "none"
              THEN UNCHANGED <<written, write_count>>
              ELSE /\ written' = set.command
                   /\ write_count' = write_count + 1
    /\ UNCHANGED <<pure, wfsu, instrument, found, waveform_source, pc, locals, log,
                   transfers, result, store, assigned>>

NextDisplay ==
    \E id \in ChannelIds, value \in DisplayInputs : SetDisplayParameter(id, value)

SpecDisplay == InitControls /\ [][NextDisplay]_vars

\* C20: assigning (slot, name) to display_parameter of a channel, slot one
\* of 1..8 and name one of the table of display_parameter (PKPK, MAX, ...,
\* NDUTY, ALL), raises nothing and writes the PACU command of that slot,
\* name and channel
C20_DisplayParameterAccepted ==
    (/\ got.control = "display_parameter"
     /\ got.slot \in 1..8
     /\ got.name \in measurable_parameters) =>
        /\ got.err = "none"
        /\ written.head = "PACU"
        /\ written.arg = IntChars(got.slot)
        /\ written.channel = got.channel
        /\ written.prefix = 0

\* ------------------------------------------------ the offset of the math trace

\* C23: for the MATH source the vertical offset is not applied: a preamble
\* that differs from the given one only in yoffset gives the same voltages
\* for the same raw samples
C23_MathIgnoresOffset ==
    (Scaled /\ scale_preamble.source = "MATH") =>
        \A other \in ScalePreambles :
            (\A key \in DOMAIN other \ {"yoffset"} : other[key] = scale_preamble[key]) =>
                ProcessData(ydata, other).data_points = scaled.data_points

\* ------------------------------------------------------ the size of a chunk

\* the chunk of the docstring of _acquire_data: "smaller chunks of 20k points"
documented_chunk_points == 20000

\* C24: no block transfer of _acquire_data asks for more than 20,000 points
C24_ChunkOfTwentyThousand ==
    \A n \in 1..Len(transfers) : transfers[n].points <= documented_chunk_points

\* ----------------------------------------------------- nothing to transfer

\* a call is running, or has ended, whose number of expected points is 0:
\* the source is a channel or a math trace of two channels, the sparsing is
\* 1 or more, and the source holds fewer samples than the sparsing
NothingExpected ==
    /\ pc # "idle"
    /\ sparsing >= 1
    /\ waveform_source \in Channels \/ (waveform_source = "MATH" /\ MathOperands # {})
    /\ ClaimedPoints = 0

\* C28: a call whose number of expected points is 0 makes no block transfer
\* and returns nothing: it ends with the ValueError np.concatenate raises on
\* the empty list of chunks, after the sparsing, the points to return and
\* first point 0 were written, which is all it has written
C28_EmptyRaises ==
    NothingExpected =>
        /\ transfers = <<>>
        /\ data = <<>>
        /\ result.status # "returned"
        /\ pc \in {"size", "loop", "done"}
        /\ SubSeq(log, 1, 3) = <<Event("write", "SP", sparsing),
                                 Event("write", "NP", arg_points),
                                 Event("write", "FP", 0)>>
        /\ \A p \in 4..Len(log) : log[p].op = "query"
        /\ wfsu = [SP |-> sparsing, NP |-> arg_points, FP |-> 0]
        /\ pc = "done" => result = Raised("ValueError")

\* a channel of one sample was read at sparsing 2: the call raised
C28_Witness ==
    /\ pc = "done"
    /\ waveform_source = "C1"
    /\ samples["C1"] = 1
    /\ sparsing = 2
    /\ expected_points = 0
    /\ result = Raised("ValueError")
    /\ Len(log) >= 3

\* a math trace of two channels without samples was read: the call raised
C28_WitnessMath ==
    /\ pc = "done"
    /\ waveform_source = "MATH"
    /\ MathOperands # {}
    /\ Available = 0
    /\ sparsing = 1
    /\ result = Raised("ValueError")

\* ------------------------------------------------ the setup a call leaves

C29_WitnessRaised ==
    /\ pc = "done"
    /\ result.status = "raised"
    /\ Len(transfers) = 2
    /\ wfsu.FP = chunk_points * sparsing
    /\ sparsing = 2

\* ----------------------------------------------------- measurement_configure

\* LecroyWR606Zi.ANALOG_TRIGGER_SOURCE: key and value of every entry
ANALOG_TRIGGER_SOURCE ==
    { <<"channel1", "C1">>, <<"channel2", "C2">>, <<"channel3", "C3">>,
      <<"channel4", "C4">>, <<"external", "EXT">>, <<"line", "LINE">> }

\* LecroyWR606Zi.measurable_parameters, the class attribute: the entries of
\* measurable_parameters_full written out a second time
measurable_parameters_of_class == measurable_parameters_full

\* the keys of a dict
Keys(dict) == {entry[1] : entry \in dict}

\* dict[key]
Lookup(dict, key) == (CHOOSE entry \in dict : entry[1] = key)[2]

\* the long-form names of the measurement engines: the values of the table
EngineNames == {entry[2] : entry \in measurable_parameters_full}

\* a write of measurement_configure: the property of app.Measure it
\* assigns, the slot formatted into it (0: none) and the text assigned
MeasureWrite(property, slot, text) ==
    [head |-> "VBS", property |-> property, slot |-> slot, text |-> text]

\* the setter of measurement_type: the validator, then the set command with
\* slot and name formatted into it
MeasurementTypeSet(value) ==
    LET checked == MeasurementAddValidator(value, SlotRange,
                                           Keys(measurable_parameters_of_class))
    IN  IF checked.err # "none"
        THEN [err |-> checked.err, writes |-> <<>>]
        ELSE [err |-> "none",
              writes |-> <<MeasureWrite("app.Measure.P%d.ParamEngine", checked.slot,
                                        checked.name)>>]

\* measurement_configure(slot, source1, source2, meas_type): the slot and
\* the sources are validated, the view, the table and the two sources are
\* written, and the type is assigned through measurement_type
MeasurementConfigure(slot, source1, source2, meas_type) ==
    IF ~StrictRange(slot, SlotRange) THEN [err |-> "ValueError", writes |-> <<>>]
    ELSE IF source1 \notin Keys(ANALOG_TRIGGER_SOURCE)
    THEN [err |-> "ValueError", writes |-> <<>>]
    ELSE IF source2 \notin Keys(ANALOG_TRIGGER_SOURCE)
    THEN [err |-> "ValueError", writes |-> <<>>]
    ELSE LET setup ==
                 << MeasureWrite("app.Measure.P{slot}.View", slot, "True"),
                    MeasureWrite("app.Measure.ShowMeasure", 0, "True"),
                    MeasureWrite("app.Measure.P{slot}.Source1", slot,
                                 Lookup(ANALOG_TRIGGER_SOURCE, source1)),
                    MeasureWrite("app.Measure.P{slot}.Source2", slot,
                                 Lookup(ANALOG_TRIGGER_SOURCE, source2)) >>
             type == MeasurementTypeSet(<<slot, meas_type>>)
         IN  [err |-> type.err, writes |-> setup \o type.writes]

\* measurement types given: every long-form name, every key of the table
\* and a name that is neither
MeasurementTypes ==
    EngineNames \cup Keys(measurable_parameters_of_class) \cup {"bogus"}

\* sources given: three keys of ANALOG_TRIGGER_SOURCE and a channel name
MeasurementSources == {"channel1", "channel2", "external", "C1"}

\* instrument.measurement_configure(slot, source1, source2, meas_type),
\* called once on the instrument after a reset
CallMeasurementConfigure(slot, source1, source2, meas_type) ==
    /\ got = NoAccess
    /\ LET done == MeasurementConfigure(slot, source1, source2, meas_type)
       IN  /\ got' = Access("call", "measurement_configure", 0,
                            StrVal(<<source1, source2>>), slot, meas_type, done.err)
           /\ log' = done.writes
           /\ written' = (IF done.writes = <<>> THEN written
                          ELSE done.writes[Len(done.writes)])
           /\ write_count' = Len(done.writes)
    /\ UNCHANGED <<pure, wfsu, instrument, found, waveform_source, pc, locals,
                   transfers, result, store, assigned>>

NextMeasure ==
    \E slot \in Slots, source1 \in MeasurementSources, source2 \in MeasurementSources,
       meas_type \in MeasurementTypes :
        CallMeasurementConfigure(slot, source1, source2, meas_type)

SpecMeasure == InitControls /\ [][NextMeasure]_vars

\* C21: measurement_configure(slot, "channel1", "channel2", N), slot one of
\* 1..8 and N a long-form name of a measurement engine, raises nothing and
\* its last write assigns N to app.Measure.P<slot>.ParamEngine
C21_ConfigureByEngineName ==
    (/\ got.control = "measurement_configure"
     /\ got.val = StrVal(<<"channel1", "channel2">>)
     /\ got.slot \in 1..8
     /\ got.name \in EngineNames) =>
        /\ got.err = "none"
        /\ log # <<>>
        /\ log[Len(log)] = MeasureWrite("app.Measure.P%d.ParamEngine", got.slot, got.name)

\* ------------------------------------------------------------ timebase_setup

\* the two settings of the time base
TimebaseKeys == {"timebase_scale", "timebase_offset"}

\* the time base of the instrument after a reset: 50 ns/div, no delay
TimebaseDefault ==
    [key \in TimebaseKeys |->
        IF key = "timebase_scale" THEN FloatVal(Rat(5, 100000000))
        ELSE FloatVal(RatOfInt(0))]

\* what a step of timebase_setup has written, and the error that ended it
Written(err, writes) == [err |-> err, writes |-> writes]

\* self.timebase_scale = value, self.timebase_offset = value: the setter
\* writes the one command of its setting, or its validator refuses the
\* value and nothing is written
TimebaseSet(key, value, accepted) ==
    IF accepted THEN Written("none", <<Event("write", key, value)>>)
    ELSE Written("ValueError", <<>>)

\* timebase_setup with the arguments tested for truth
TimebaseSetupTruthy(scale, offset, scale_ok, offset_ok) ==
    LET given(v) == v # NoValue /\ v.num.n # 0
        first == IF given(scale) THEN TimebaseSet("timebase_scale", scale, scale_ok)
                 ELSE Written("none", <<>>)
        second == IF given(offset) THEN TimebaseSet("timebase_offset", offset, offset_ok)
                  ELSE Written("none", <<>>)
    IN  IF first.err # "none" THEN first
        ELSE Written(second.err, first.writes \o second.writes)

\* timebase_setup(scale, offset): the scale is assigned when it is not
\* None, then the offset when it is not None; an exception of the first
\* assignment ends the call
TimebaseSetup(scale, offset, scale_ok, offset_ok) ==
    LET first == IF scale # NoValue THEN TimebaseSet("timebase_scale", scale, scale_ok)
                 ELSE Written("none", <<>>)
        second == IF offset # NoValue
                  THEN TimebaseSet("timebase_offset", offset, offset_ok)
                  ELSE Written("none", <<>>)
    IN  IF first.err # "none" THEN first
        ELSE Written(second.err, first.writes \o second.writes)

\* the instrument takes the writes in order: it keeps the value of each
RECURSIVE TimebaseWrite(_, _)
TimebaseWrite(st, writes) ==
    IF writes = <<>> THEN st
    ELSE TimebaseWrite([st EXCEPT ![Head(writes).key] = Head(writes).val], Tail(writes))

\* arguments given: None, and the values of the tests and around them
TimebaseValues ==
    {NoValue, FloatVal(RatOfInt(0)), FloatVal(Rat(1, 1000)),
     FloatVal(Rat(-5, 100000000)), FloatVal(RatOfInt(1000))}

InitTimebase ==
    /\ samples = [c \in Channels |-> 0]
    /\ math_eqn = SourceChars("C1")
    /\ DriverIdle
    /\ PureIdle
    /\ store = TimebaseDefault
    /\ written = NoCommand
    /\ write_count = 0
    /\ assigned = [id \in ChannelIds |-> [c \in {"bwlimit", "coupling", "invert"} |-> NoValue]]
    /\ got = NoAccess

\* instrument.timebase_setup(scale, offset)
CallTimebaseSetup(scale, offset, scale_ok, offset_ok) ==
    /\ LET done == TimebaseSetup(scale, offset, scale_ok, offset_ok)
       IN  /\ got' = [op |-> "call", control |-> "timebase_setup", channel |-> 0,
                      val |-> <<scale, offset>>, slot |-> 0, name |-> "",
                      err |-> done.err]
           /\ log' = done.writes
           /\ store' = TimebaseWrite(store, done.writes)
    /\ UNCHANGED <<pure, wfsu, instrument, found, waveform_source, pc, locals,
                   transfers, result, written, write_count, assigned>>

NextTimebase ==
    \E scale \in TimebaseValues, offset \in TimebaseValues,
       scale_ok \in BOOLEAN, offset_ok \in BOOLEAN :
        CallTimebaseSetup(scale, offset, scale_ok, offset_ok)

SpecTimebase == InitTimebase /\ [][NextTimebase]_vars

\* the call of timebase_setup that was made last
TimebaseCalled == got.control = "timebase_setup"

C22_WitnessOffsetOnly ==
    /\ TimebaseCalled
    /\ got.err = "none"
    /\ got.val = <<NoValue, FloatVal(Rat(-5, 100000000))>>
    /\ log = <<Event("write", "timebase_offset", FloatVal(Rat(-5, 100000000)))>>
    /\ store["timebase_scale"] = FloatVal(Rat(1, 1000))

\* nothing was given: nothing written
C22_WitnessNothing ==
    /\ TimebaseCalled
    /\ got.val = <<NoValue, NoValue>>
    /\ log = <<>>
    /\ store["timebase_scale"] = FloatVal(RatOfInt(1000))

\* ----------------------------------------------------- the error registers

\* EXR(IntFlag): name and value of every member
EXR ==
    { <<"PERMISSION_ERROR", 21>>, <<"ENVIRONMENT_ERROR", 22>>, <<"OPTION_ERROR", 23>>,
      <<"UNRESOLVED_PARSING_ERROR", 24>>, <<"PARAMETER_ERROR", 25>>,
      <<"NON_IMPLEMENTED_COMMAND", 26>>, <<"PARAMETER_MISSING", 27>>,
      <<"HEX_DATA_ERROR", 30>>, <<"WAVEFORM_ERROR", 31>>,
      <<"WAVEFORM_DESCRIPTOR_ERROR", 32>>, <<"WAVEFORM_TEXT_ERROR", 33>>,
      <<"WAVEFORM_TIME_ERROR", 34>>, <<"WAVEFORM_DATA_ERROR", 35>>,
      <<"PANEL_SETUP_ERROR", 36>>, <<"NO_MASS_STORAGE", 50>>,
      <<"MASS_STORAGE_NOT_FORMATTED", 51>>, <<"MASS_STORAGE_WRITE_PROTECTED", 53>>,
      <<"BAD_MASS_STORAGE_DETECTED_DURING_FORMATTING", 54>>,
      <<"MASS_STORAGE_ROOT_DIRECTORY_FULL", 55>>, <<"MASS_STORAGE_FULL", 56>>,
      <<"MASS_STORAGE_FILE_SEQUENCE_NUMBERS_EXHAUSTED", 57>>,
      <<"MASS_STORAGE_FILE_NOT_FOUND", 58>>, <<"REQUESTED_DIRECTORY_NOT_FOUND", 59>>,
      <<"MASS_STORAGE_FILE_NAME_NOT_DOS_COMPATIBLE_OR_ILLEGAL_FILE_NAME", 61>>,
      <<"MASS_STORAGE_BECAUSE_FILE_NAME_ALREADY_EXISTS", 62>> }

\* DDR(IntFlag): name and value of every member, 1 << k written 2^k
DDR ==
    { <<"CHANNEL_1_OVERLOAD", 2^0>>, <<"CHANNEL_2_OVERLOAD", 2^1>>,
      <<"CHANNEL_3_OVERLOAD", 2^3>>, <<"CHANNEL_4_OVERLOAD", 2^4>>,
      <<"EXTERNAL_INPUT_OVERLOAD", 2^7>>, <<"CHANNEL_1_HARDWARE_FAILURE", 2^8>>,
      <<"CHANNEL_2_HARDWARE_FAILURE", 2^9>>, <<"CHANNEL_3_HARDWARE_FAILURE", 2^10>>,
      <<"CHANNEL_4_HARDWARE_FAILURE", 2^11>>, <<"TRIGGER_HARDWARE_FAILURE", 2^12>>,
      <<"TIMEBASE_HARDWARE_FAILURE", 2^13>> }

\* CMR(IntFlag): name and value of every member
CMR ==
    { <<"COMMAND_SUCCEEDED", 0>>, <<"UNRECOGNIZED_CMD_QUERY_HEADER", 1>>,
      <<"ILLEGAL_HEADER_PATH", 2>>, <<"ILLEGAL_NUMBER_SUFFIX", 3>>,
      <<"UNRECOGNIZED_KEYWORD", 4>>, <<"STRING_ERROR", 5>>,
      <<"BET_EMBEDDED_IN_ANOTHER_MESSAGE", 6>>, <<"ARBITRARY_DATA_BLOCK_EXPECTED", 7>>,
      <<"NON_DIGIT_CHR_IN_ARBITRARY_DATA_BLOCK_BYTE_CNT_FIELD", 10>>,
      <<"EIO_DETECTED_DURING_DEFINITE_DATA_BLOCK_TRANSFER", 11>>,
      <<"TRIGGER_LINK_BUS_ERROR", 12>>,
      <<"EXTRA_BYTES_DETECTED_DURING_DEFINITE_LENGTH_DATA_BLOCK_TRANSFER", 13>> }

\* the table of the docstring of DDR: the bit of every message, with the
\* member that is named after the message
DDR_documented ==
    { <<13, "TIMEBASE_HARDWARE_FAILURE">>, <<12, "TRIGGER_HARDWARE_FAILURE">>,
      <<11, "CHANNEL_4_HARDWARE_FAILURE">>, <<10, "CHANNEL_3_HARDWARE_FAILURE">>,
      <<9, "CHANNEL_2_HARDWARE_FAILURE">>, <<8, "CHANNEL_1_HARDWARE_FAILURE">>,
      <<7, "EXTERNAL_INPUT_OVERLOAD">>, <<3, "CHANNEL_4_OVERLOAD">>,
      <<2, "CHANNEL_3_OVERLOAD">>, <<1, "CHANNEL_2_OVERLOAD">>,
      <<0, "CHANNEL_1_OVERLOAD">> }

\* the table of the docstring of CMR: the code of every message, with the
\* member that is named after the message ("Illegal number." has none)
CMR_documented ==
    { <<0, "COMMAND_SUCCEEDED">>, <<1, "UNRECOGNIZED_CMD_QUERY_HEADER">>,
      <<2, "ILLEGAL_HEADER_PATH">>, <<3, "ILLEGAL_NUMBER">>,
      <<4, "ILLEGAL_NUMBER_SUFFIX">>, <<5, "UNRECOGNIZED_KEYWORD">>,
      <<6, "STRING_ERROR">>, <<7, "BET_EMBEDDED_IN_ANOTHER_MESSAGE">>,
      <<10, "ARBITRARY_DATA_BLOCK_EXPECTED">>,
      <<11, "NON_DIGIT_CHR_IN_ARBITRARY_DATA_BLOCK_BYTE_CNT_FIELD">>,
      <<12, "EIO_DETECTED_DURING_DEFINITE_DATA_BLOCK_TRANSFER">>,
      <<13, "EXTRA_BYTES_DETECTED_DURING_DEFINITE_LENGTH_DATA_BLOCK_TRANSFER">> }

\* EXR(int(v)).name, DDR(int(v)).name, CMR(int(v)).name: the name of the
\* member that has the value; the flag of a value no member has is unnamed
IntFlagName(flags, value) ==
    IF \E member \in flags : member[2] = value
    THEN (CHOOSE member \in flags : member[2] = value)[1]
    ELSE "None"

\* x & (1 << k)
BitSet(x, k) == (x \div 2^k) % 2 = 1

\* what check_set_errors has done: the register it read after the event
\* status register ("": none), the name found there, and the exception
Checks(register, name, err) == [register |-> register, name |-> name, err |-> err]

\* check_set_errors with the command error looked at first
CheckSetErrorsCommandFirst(esr, reply) ==
    IF BitSet(esr, 5) THEN Checks("CMR?", IntFlagName(CMR, reply), "Warning")
    ELSE IF BitSet(esr, 4) THEN Checks("EXR?", IntFlagName(EXR, reply), "Warning")
    ELSE IF BitSet(esr, 3) THEN Checks("DDR?", IntFlagName(DDR, reply), "Warning")
    ELSE Checks("", "", "none")

\* check_set_errors, esr the event status register read and reply the
\* value of the error register that is read after it
CheckSetErrors(esr, reply) ==
    IF BitSet(esr, 4) THEN Checks("EXR?", IntFlagName(EXR, reply), "Warning")
    ELSE IF BitSet(esr, 3) THEN Checks("DDR?", IntFlagName(DDR, reply), "Warning")
    ELSE IF BitSet(esr, 5) THEN Checks("CMR?", IntFlagName(CMR, reply), "Warning")
    ELSE Checks("", "", "none")

\* the values of the 8-bit event status register
EventStatusValues == 0..255

\* what the instrument holds in an error register: a code of the table of
\* its documentation; 0 stands for no register
RegisterValues(register) ==
    CASE register = "EXR?" -> {member[2] : member \in EXR}
      [] register = "DDR?" -> {2^entry[1] : entry \in DDR_documented}
      [] register = "CMR?" -> {entry[1] : entry \in CMR_documented}
      [] OTHER -> {0}

\* instrument.check_set_errors(), called once
CallCheckSetErrors(esr, reply) ==
    /\ got.op = "none"
    /\ LET done == CheckSetErrors(esr, reply)
       IN  /\ got' = Access("call", "check_set_errors", 0, IntVal(esr), 0, done.name,
                            done.err)
           /\ log' = <<Event("query", "*ESR?", esr)>>
                     \o (IF done.register = "" THEN <<>>
                         ELSE <<Event("query", done.register, reply)>>)
           /\ result' = (IF done.err = "none" THEN Returned(<<>>, NoPreamble)
                         ELSE Raised(done.err))
    /\ UNCHANGED <<pure, wfsu, instrument, found, waveform_source, pc, locals,
                   transfers, store, written, write_count, assigned>>

NextErrors ==
    \E esr \in EventStatusValues :
        \E reply \in RegisterValues(CheckSetErrors(esr, 0).register) :
            CallCheckSetErrors(esr, reply)

SpecErrors == InitControls /\ [][NextErrors]_vars

\* check_set_errors has been called
ErrorsChecked == got.control = "check_set_errors"

\* C25: the member a value of DDR or CMR is decoded to is the one that the
\* table of the class's docstring names for that value: in DDR bit n-1 is
\* the overload of channel n and bit n+7 its hardware failure, in CMR code
\* 3 is the illegal number, 4 the illegal number suffix, and so on
C25_RegisterCodes ==
    (ErrorsChecked /\ Len(log) = 2) =>
        LET register == log[2].key
            value == log[2].val
        IN  /\ register = "DDR?" =>
                 \A entry \in DDR_documented : 2^entry[1] = value => got.name = entry[2]
            /\ register = "CMR?" =>
                 \A entry \in CMR_documented : entry[1] = value => got.name = entry[2]

\* C30: check_set_errors reads the event status register once, first, and
\* then at most one error register: EXR when bit 4 is set, else DDR when
\* bit 3 is set, else CMR when bit 5 is set; it raises Warning when one of
\* the three bits is set, and returns the empty list, having read no error
\* register, when none is
C30_ErrorPriority ==
    ErrorsChecked =>
        LET esr == got.val.num.n
            execution == (esr \div 16) % 2 = 1
            device == (esr \div 8) % 2 = 1
            command == (esr \div 32) % 2 = 1
            reads == {p \in 1..Len(log) : log[p].key = "*ESR?"}
        IN  /\ log # <<>>
            /\ log[1] = Event("query", "*ESR?", esr)
            /\ reads = {1}
            /\ Len(log) <= 2
            /\ \A p \in 1..Len(log) : log[p].op = "query"
            /\ (execution \/ device \/ command) <=> result = Raised("Warning")
            /\ ~(execution \/ device \/ command) <=>
                   (result = Returned(<<>>, NoPreamble) /\ Len(log) = 1)
            /\ execution => Len(log) = 2 /\ log[2].key = "EXR?"
            /\ (~execution /\ device) => Len(log) = 2 /\ log[2].key = "DDR?"
            /\ (~execution /\ ~device /\ command) => Len(log) = 2 /\ log[2].key = "CMR?"

\* the three bits were set: the execution error register was read, the
\* parameter error found and Warning raised
C30_Witness ==
    /\ ErrorsChecked
    /\ got.val = IntVal(56)
    /\ log = <<Event("query", "*ESR?", 56), Event("query", "EXR?", 25)>>
    /\ got.name = "PARAMETER_ERROR"
    /\ result = Raised("Warning")

\* the device and the command bit were set: the device register was read
C30_WitnessDevice ==
    /\ ErrorsChecked
    /\ got.val = IntVal(40)
    /\ Len(log) = 2
    /\ log[2].key = "DDR?"
    /\ result = Raised("Warning")

\* bits 0, 1, 2, 6 and 7 were set and none of the three: the empty list
\* came back after the one read
C30_WitnessNone ==
    /\ ErrorsChecked
    /\ got.val = IntVal(199)
    /\ Len(log) = 1
    /\ result = Returned(<<>>, NoPreamble)

\* ------------------------------------------------ the sources of a math channel

\* values=['C1', 'C2', 'C3', 'C4'] of math_source1 and math_source2
math_source_values == [k \in 1..4 |-> StrVal(SourceChars(<<"C1", "C2", "C3", "C4">>[k]))]

\* a source control of a math channel: the VBS property its get command
\* returns and the one its set command assigns
math_source1 ==
    [name |-> "math_source1",
     get |-> "app.Math.F{ch}.Source1",
     set |-> "app.Math.F{ch}.Source1",
     quoted |-> TRUE, values |-> math_source_values]

math_source2 ==
    [name |-> "math_source2",
     get |-> "app.Math.F{ch}.Source1",
     set |-> "app.Math.F{ch}.Source2",
     quoted |-> TRUE, values |-> math_source_values]

MathSourceControls == {math_source1, math_source2}

\* Channel.insert_id(command) of a math channel: the id is put for {ch}
MathInsertId(command, id) == [command EXCEPT !.channel = id]

\* strict_discrete_set(value, values) on a list
InList(value, allowed) ==
    IF \E k \in 1..Len(allowed) : PyEq(allowed[k], value) THEN Checked("none", value)
    ELSE Checked("ValueError", value)

\* the setter of a source control: the validator, then the set command
MathSourceSet(control, id, value) ==
    LET checked == InList(value, control.values)
    IN  IF checked.err # "none"
        THEN [err |-> checked.err, command |-> NoCommand]
        ELSE [err |-> "none",
              command |-> MathInsertId(SetCommand(control, checked.val), id)]

\* the getter of a source control: the one value of the reply
MathSourceGet(control, reply) ==
    LET vals == Values(reply)
    IN  IF Len(vals) = 1 THEN Checked("none", vals[1])
        ELSE Checked("none", ListVal)

\* the math channels that are driven: f1 and f8, the first and the last
MathIds == {1, 8}

\* the instrument keeps Source1 and Source2 of every math channel apart;
\* after a reset they are C1 and C2
MathStoreDefault ==
    [key \in {"app.Math.F{ch}.Source1", "app.Math.F{ch}.Source2"} \X MathIds |->
        IF key[1] = "app.Math.F{ch}.Source1" THEN SourceChars("C1") ELSE SourceChars("C2")]

\* the instrument takes a VBS assignment of a property it keeps
MathWrite(st, command) ==
    IF command.head = "VBS" /\ <<command.object, command.channel>> \in DOMAIN st
    THEN [st EXCEPT ![<<command.object, command.channel>>] = Unquote(command.arg)]
    ELSE st

\* the instrument answers a VBS query with the text it keeps
MathAsk(st, command) ==
    IF command.head = "VBS?" /\ <<command.object, command.channel>> \in DOMAIN st
    THEN st[<<command.object, command.channel>>] \o <<Newline>>
    ELSE <<Newline>>

\* sources assigned: the four channels and the math trace
MathSourceInputs ==
    {math_source_values[k] : k \in 1..4} \cup {StrVal(SourceChars("MATH"))}

InitMathSource ==
    /\ samples = [c \in Channels |-> 0]
    /\ math_eqn = SourceChars("C1")
    /\ DriverIdle
    /\ PureIdle
    /\ store = MathStoreDefault
    /\ written = NoCommand
    /\ write_count = 0
    /\ assigned = [id \in MathIds |->
                      [c \in {"math_source1", "math_source2"} |-> NoValue]]
    /\ got = NoAccess

\* instrument.f<id>.<control> = value
SetMathSource(id, control, value) ==
    /\ write_count < MaxWrites
    /\ LET set == MathSourceSet(control, id, value)
       IN  /\ got' = Access("set", control.name, id, value, 0, "", set.err)
           /\ IF set.err # "none"
              THEN UNCHANGED <<store, written, write_count, assigned>>
              ELSE /\ store' = MathWrite(store, set.command)
                   /\ written' = set.command
                   /\ write_count' = write_count + 1
                   /\ assigned' = [assigned EXCEPT ![id][control.name] = value]
    /\ UNCHANGED <<pure, wfsu, instrument, found, waveform_source, pc, locals, log,
                   transfers, result>>

\* instrument.f<id>.<control> is read
GetMathSource(id, control) ==
    /\ LET reply == MathAsk(store, MathInsertId(GetCommand(control), id))
           get == MathSourceGet(control, reply)
       IN  got' = Access("get", control.name, id, get.val, 0, "", get.err)
    /\ UNCHANGED <<pure, wfsu, instrument, found, waveform_source, pc, locals, log,
                   transfers, result, store, written, write_count, assigned>>

NextMathSource ==
    \/ \E id \in MathIds, control \in MathSourceControls, value \in MathSourceInputs :
          SetMathSource(id, control, value)
    \/ \E id \in MathIds, control \in MathSourceControls : GetMathSource(id, control)

SpecMathSource == InitMathSource /\ [][NextMathSource]_vars

\* C26: math_source2 reads the second source: once math_source1 = A and
\* math_source2 = B have been assigned on a math channel, A and B two
\* different channels, reading math_source2 of that channel returns B
C26_SecondSourceReadBack ==
    (/\ got.op = "get"
     /\ got.control = "math_source2"
     /\ assigned[got.channel]["math_source1"] # NoValue
     /\ assigned[got.channel]["math_source2"] # NoValue
     /\ assigned[got.channel]["math_source1"] # assigned[got.channel]["math_source2"]) =>
        got.val = assigned[got.channel]["math_source2"]

\* ----------------------------------------------------------------- math_define

\* a value assigned to math_define: a tuple, a list or a str, with its
\* members (a str is its own one member)
PyValue(kind, items) == [kind |-> kind, items |-> items]

\* values=[["C1", "C2", "C3", "C4"], ["*", "/", "+", "-"], ["C1", "C2", "C3", "C4"]]
math_define_values ==
    << {"C1", "C2", "C3", "C4"}, {"*", "/", "+", "-"}, {"C1", "C2", "C3", "C4"} >>

\* _math_define_validator with the operator left unchecked
MathDefineValidatorSourcesOnly(value, allowed) ==
    IF value.kind # "tuple" THEN Checked("ValueError", <<>>)
    ELSE IF Len(value.items) # 3 THEN Checked("ValueError", <<>>)
    ELSE LET left == SanitizeSource(value.items[1])
             right == SanitizeSource(value.items[3])
             output == <<left.val, value.items[2], right.val>>
         IN  IF ~left.ok \/ ~right.ok THEN Checked("ValueError", <<>>)
             ELSE IF \E n \in {1, 3} : output[n] \notin allowed[n]
             THEN Checked("ValueError", <<>>)
             ELSE Checked("none", output)

\* _math_define_validator(value, values): value is a tuple, of three
\* members, the sources are sanitized, and each of the three is among the
\* values allowed at its place
MathDefineValidator(value, allowed) ==
    IF value.kind # "tuple" THEN Checked("ValueError", <<>>)
    ELSE IF Len(value.items) # 3 THEN Checked("ValueError", <<>>)
    ELSE LET left == SanitizeSource(value.items[1])
             right == SanitizeSource(value.items[3])
             output == <<left.val, value.items[2], right.val>>
         IN  IF ~left.ok \/ ~right.ok THEN Checked("ValueError", <<>>)
             ELSE IF \E n \in 1..3 : output[n] \notin allowed[n]
             THEN Checked("ValueError", <<>>)
             ELSE Checked("none", output)

\* "F{ch}:DEF EQN,'%s%s%s'" % output
MathDefineCommand(output) ==
    Command("F{ch}:DEF", "EQN",
            Equation(SourceChars(output[1]), output[2], SourceChars(output[3])), 0, 0)

\* the setter of math_define: the validator, then the set command
MathDefineSet(id, value) ==
    LET checked == MathDefineValidator(value, math_define_values)
    IN  IF checked.err # "none"
        THEN [err |-> checked.err, command |-> NoCommand]
        ELSE [err |-> "none",
              command |-> MathInsertId(MathDefineCommand(checked.val), id)]

\* the math channels f1 to f8
MathChannelIds == 1..8

\* values assigned to math_define: every tuple of a source, an operator and
\* a source out of the allowed ones and two others each, tuples of 0, 2 and
\* 4 members, a list of three allowed members and a str
MathDefineInputs ==
    {PyValue("tuple", <<left, op, right>>) :
        left \in {"C1", "C2", "C3", "C4", "MATH", "F1"},
        op \in {"*", "/", "+", "-", "^", "C1"},
        right \in {"C1", "C2", "C3", "C4", "MATH", "F1"}}
    \cup {PyValue("tuple", <<>>), PyValue("tuple", <<"C1", "+">>),
          PyValue("tuple", <<"C1", "+", "C2", "C3">>),
          PyValue("list", <<"C1", "+", "C2">>), PyValue("str", <<"C1+C2">>)}

\* instrument.f<id>.math_define = value, assigned once
SetMathDefine(id, value) ==
    /\ got.op = "none"
    /\ LET set == MathDefineSet(id, value)
       IN  /\ got' = Access("set", "math_define", id, value, 0, "", set.err)
           /\ IF set.err # "none"
              THEN UNCHANGED <<written, write_count>>
              ELSE /\ written' = set.command
                   /\ write_count' = write_count + 1
    /\ UNCHANGED <<pure, wfsu, instrument, found, waveform_source, pc, locals, log,
                   transfers, result, store, assigned>>

NextMathDefine ==
    \E id \in MathChannelIds, value \in MathDefineInputs : SetMathDefine(id, value)

SpecMathDefine == InitControls /\ [][NextMathDefine]_vars

C27_WitnessList ==
    /\ got.control = "math_define"
    /\ got.val = PyValue("list", <<"C1", "+", "C2">>)
    /\ got.err = "ValueError"
    /\ written = NoCommand

\* a tuple with the math trace for a source was refused
C27_WitnessSource ==
    /\ got.control = "math_define"
    /\ got.val = PyValue("tuple", <<"C1", "+", "MATH">>)
    /\ got.err = "ValueError"
    /\ write_count = 0

====
